---------------------------- MODULE Spec2Model ----------------------------
(***************************************************************************)
(* A model of the scraping orchestration engine of instagram-scraper:      *)
(*   - the background job runners of app/api/routes.py,                    *)
(*   - the session manager of app/scraper/browser_use_agent.py             *)
(*     (ensure_instagram_session, _login_and_save_session) and the import  *)
(*     script scripts/import_instagram_session.py,                         *)
(*   - the persistence layer of app/scraper/instagram_scraper.py           *)
(*     (_save_profile, _save_posts_and_interactions), its extraction of    *)
(*     posts (_scrape_posts over scrape_profile_posts and the Browserless  *)
(*     fallback, _merge_posts_data) and the per-post loop of               *)
(*     scrape_recent_posts_like_users with _is_recent_post.                *)
(*                                                                         *)
(* The relational store is PostgreSQL (app/database.py) at its default     *)
(* isolation level: a statement sees the rows committed before it started  *)
(* plus the writes of its own transaction, and an INSERT or UPDATE that    *)
(* meets a row written by another open transaction waits for it.           *)
(* A runner is one coroutine; it is modelled between its await points and  *)
(* between the SQL statements whose interleaving with other processes      *)
(* (other server workers, the import script) matters.                      *)
(***************************************************************************)
EXTENDS Integers, Sequences, FiniteSets, TLC

(***************************************************************************)
(* Bounds of the model.                                                    *)
(***************************************************************************)
\* Number of jobs (each with its own runner).
NumJobs == 2
\* How many times the dispatcher may invoke the runner of one job.
MaxRuns == 2
\* How many import-script processes may run.
NumImports == 1

JobIds == 1..NumJobs
ImportIds == 1..NumImports

(***************************************************************************)
(* Small value universes.                                                  *)
(***************************************************************************)
\* NULL of a text column (messages are lists of lower-case words) and of a
\* timestamp column (a timestamp is the number of the run that wrote it).
NoText == <<>>
NoTime == 0

\* Principals (instagram usernames owning a session).
Principals == {"alice", "bob"}

\* The flows of the profile runner (options.flow).
Flows == {"default", "recent_likes"}

Range(s) == {s[i] : i \in DOMAIN s}

\* Whether sub is a contiguous part of s (substring matching on token lists).
IsInfix(sub, s) ==
    \E i \in 0..(Len(s) - Len(sub)) :
        \A k \in 1..Len(sub) : s[i + k] = sub[k]

(***************************************************************************)
(* State.                                                                  *)
(***************************************************************************)
VARIABLES
    cfg,          \* the settings (config.py), fixed for a run of the system
    storeUp,      \* whether the database answers (FALSE: every statement raises)
    clock,        \* orders the updated_at values of session rows
    jobs,         \* table scraping_jobs: job id -> row
    req,          \* the request each job was submitted with
    runs,         \* how many times the runner of a job was invoked
    pc,           \* where the runner (coroutine) of each job stands
    exc,          \* the exception travelling up in a runner (NoText: none)
    res,          \* the result the flow returned to the runner
    sessions,     \* table instagram_sessions: sequence of rows, id = index
    acq,          \* locals of the session acquisition running in a job
    imp,          \* the import-script processes
    profiles,     \* table profiles: sequence of rows, id = index
    posts,        \* table posts (committed rows)
    interactions, \* table interactions (committed rows)
    data,         \* what the extraction stages of a job produced
    sv,           \* locals and open transaction of the save functions of a job
    sp,           \* one call of _scrape_posts: its arguments, tiers and result
    rl,           \* the per-post loop of one call of scrape_recent_posts_like_users
    call          \* one call of a helper that only computes: its arguments and result

vars == <<cfg, storeUp, clock, jobs, req, runs, pc, exc, res, sessions, acq,
          imp, profiles, posts, interactions, data, sv, sp, rl, call>>

jobVars   == <<jobs, req, runs, pc, exc, res>>
sessVars  == <<sessions, acq, clock>>
storeVars == <<profiles, posts, interactions, data, sv>>
scrapeVars == <<sp, rl, call>>

\* No call of _scrape_posts, no per-post loop and no helper call is under way.
SpIdle == [pc |-> "idle"]
RlIdle == [pc |-> "idle"]
CallIdle == [pc |-> "idle"]

(***************************************************************************)
(* Error messages, as lists of lower-case words (str(exc).lower()).        *)
(***************************************************************************)
MsgLoginNotDone   == <<"login", "nao", "foi", "concluido", "com", "sucesso">>
MsgLoginInvalid   == <<"login", "invalido", "detectado", "pelo", "agente">>
MsgNoCookies      == <<"storage", "state", "nao", "possui", "cookies">>
MsgWebsocket      == <<"websocket", "closed">>
MsgSessionMissing == <<"sessao", "instagram", "nao", "encontrada", "ou", "invalida">>
MsgSessionExpired == <<"sessao", "instagram", "expirada", "ou", "invalida">>
MsgProfileFailed  == <<"falha", "ao", "obter", "dados", "do", "perfil">>
MsgDbError        == <<"operationalerror", "connection", "refused">>
MsgDupProfile     == <<"integrityerror", "duplicate", "key", "profiles_instagram_username_key">>
MsgDupPost        == <<"integrityerror", "duplicate", "key", "posts_post_url_key">>
MsgDupInteraction == <<"integrityerror", "duplicate", "key", "uq_interactions_post_url_user_url_type">>
MsgNotNull        == <<"integrityerror", "null", "value">>
MsgNoInvesting    == <<"nao", "foi", "possivel", "obter", "sessao", "investing">>
MsgGenericFailed  == <<"generic_scrape_failed">>
MsgDeadlock       == <<"deadlock", "detected">>
MsgAgentError     == <<"agent", "reported", "error">>
\* A timeout of the browser, as Playwright words it.
MsgTimeout        == <<"timeout", "30000ms", "exceeded">>

\* The markers of _should_retry_login_error, word by word.
RetryMarkers ==
    { <<"root", "cdp", "client", "not", "initialized">>,
      <<"failed", "to", "establish", "cdp", "connection">>,
      <<"connectionclosederror">>,
      <<"protocol", "error">>,
      <<"reserved", "bits", "must", "be", "0">>,
      <<"sent", "1002">>,
      <<"client", "is", "stopping">>,
      <<"websocket">>,
      <<"navigation", "failed">> }

\* A classifier for which every error is transient: the behaviour C10 excludes.
RetryAnyLoginError(msg) == msg # NoText

\* _should_retry_login_error: some marker occurs in the lowered message.
ShouldRetryLoginError(msg) == \E m \in RetryMarkers : IsInfix(m, msg)

(***************************************************************************)
(* Session rows and credential bundles.                                    *)
(***************************************************************************)
\* settings.instagram_username: the account the login procedure logs in as.
ConfiguredUser == "alice"
\* instagram_username NULL (a session imported without --username).
NoOwner == "none"
\* settings.browser_use_max_retries.
BrowserUseMaxRetries == 3

\* A credential bundle (storage_state): who produced it, the state of its
\* sessionid cookie and whether it carries a reconnect handle. Every stored
\* bundle has cookies (login and import both refuse one without).
NoState == [by |-> "none", who |-> 0, auth |-> "missing", reconnect |-> FALSE]
Bundle(by, who, auth, rc) == [by |-> by, who |-> who, auth |-> auth, reconnect |-> rc]
AuthStates == {"valid", "expired", "missing"}

SessionRow(owner, st, now) ==
    [owner |-> owner, st |-> st, active |-> TRUE, last_used |-> now, upd |-> now]

ActiveIds == {i \in DOMAIN sessions : sessions[i].active}

\* _get_latest_session: the active row with the greatest updated_at (0: none).
\* The query carries no filter on instagram_username.
GetLatestSession ==
    IF ActiveIds = {} THEN 0
    ELSE CHOOSE i \in ActiveIds : \A k \in ActiveIds : sessions[k].upd <= sessions[i].upd

\* _get_active_instagram_session (routes.py): the same query, filtered by the
\* normalized username when one is given.
GetActiveInstagramSession(username) ==
    LET ids == {i \in ActiveIds : username = NoOwner \/ sessions[i].owner = username}
    IN  IF ids = {} THEN 0
        ELSE CHOOSE i \in ids : \A k \in ids : sessions[k].upd <= sessions[i].upd

\* Rows written (and so locked) by the open transactions of the other processes.
LockedExceptJob(j) ==
    UNION ({acq[k].deact : k \in JobIds \ {j}} \cup {imp[i].deact : i \in ImportIds})
LockedExceptImport(i) ==
    UNION ({acq[k].deact : k \in JobIds} \cup {imp[k].deact : k \in ImportIds \ {i}})

\* _has_valid_auth_cookie: a sessionid cookie that is not expired.
HasValidAuthCookie(st) == st.auth = "valid"

\* What the live probe of _is_session_valid can observe.
ProbeOutcomes == {"ok", "login_redirect", "login_form", "bad_status", "exception"}

\* _is_session_valid, given what the probe observed.
IsSessionValid(st, strict, probe) ==
    IF st = NoState THEN FALSE
    ELSE IF ~strict /\ HasValidAuthCookie(st) THEN TRUE
    ELSE IF probe = "exception" THEN HasValidAuthCookie(st)
    ELSE probe = "ok"

\* Locals of one ensure_instagram_session call.
AcqIdle ==
    [ret |-> "none", existing |-> 0, attempt |-> 0, logins |-> 0,
     lastErr |-> NoText, invalidAt |-> 0, deact |-> {}, newst |-> NoState,
     created |-> 0, result |-> NoState, done |-> FALSE, attached |-> 0]

\* The call of ensure_instagram_session(db, instagram_username=...) whose caller
\* continues at `ret`. The acquisition as present in the source takes no
\* account of the username the caller names.
AcqCall(j, ret) == [AcqIdle EXCEPT !.ret = ret]

\* Where an exception raised inside the acquisition lands: the callers
\* (scrape_profile, scrape_profile_info, scrape_recent_posts_like_users) log
\* it and raise it again, up to the runner's catch-all.
RaiseTarget(ret) == IF ret = "returned" THEN "raised" ELSE "handler"

AcqReturn(j, st) ==
    /\ pc' = [pc EXCEPT ![j] = acq[j].ret]
    /\ exc' = exc

AcqRaise(j, msg) ==
    /\ pc' = [pc EXCEPT ![j] = RaiseTarget(acq[j].ret)]
    /\ exc' = [exc EXCEPT ![j] = msg]

\* A touch that also writes the credential bundle of the row: the behaviour
\* C20 excludes.
TouchRewritesBundle(i) ==
    [sessions EXCEPT ![i].st = NoState, ![i].last_used = clock + 1,
                     ![i].upd = clock + 1]

\* _touch_session: last_used_at := now; commit (updated_at follows, onupdate).
TouchedSessions(i) ==
    [sessions EXCEPT ![i].last_used = clock + 1, ![i].upd = clock + 1]

(***************************************************************************)
(* ensure_instagram_session (browser_use_agent.py 711-771).                *)
(***************************************************************************)
\* Lines 716-733 up to the first await: credentials check, lookup, and with
\* strict validation off the immediate reuse of the stored session.
EnsEntry(j) ==
    /\ pc[j] = "ens_entry"
    /\ UNCHANGED <<cfg, scrapeVars, storeUp, jobs, req, runs, res, imp, storeVars>>
    /\ IF ~cfg.creds
       THEN /\ AcqReturn(j, NoState)
            /\ acq' = [acq EXCEPT ![j].result = NoState, ![j].done = TRUE]
            /\ UNCHANGED <<sessions, clock>>
       ELSE IF ~storeUp
       THEN /\ AcqRaise(j, MsgDbError)
            /\ acq' = [acq EXCEPT ![j].done = TRUE]
            /\ UNCHANGED <<sessions, clock>>
       ELSE LET e == GetLatestSession IN
            IF e # 0 /\ ~cfg.strict
            THEN /\ e \notin LockedExceptJob(j)
                 /\ sessions' = TouchedSessions(e)
                 /\ clock' = clock + 1
                 /\ acq' = [acq EXCEPT ![j].existing = e, ![j].result = sessions[e].st,
                                       ![j].done = TRUE]
                 /\ AcqReturn(j, sessions[e].st)
            ELSE /\ acq' = [acq EXCEPT ![j].existing = e, ![j].attempt = 1]
                 /\ pc' = [pc EXCEPT ![j] = IF e # 0 THEN "ens_validate" ELSE "login"]
                 /\ UNCHANGED <<sessions, clock, exc>>

\* Lines 730-739: the strict validation of the stored session, then the
\* decision to reuse, to reconnect or to replace it.
EnsValidate(j) ==
    /\ pc[j] = "ens_validate"
    /\ storeUp
    /\ UNCHANGED <<cfg, scrapeVars, storeUp, jobs, req, runs, res, imp, storeVars>>
    /\ \E probe \in ProbeOutcomes :
        LET e == acq[j].existing IN
        IF IsSessionValid(sessions[e].st, cfg.strict, probe)
        THEN /\ e \notin LockedExceptJob(j)
             /\ sessions' = TouchedSessions(e)
             /\ clock' = clock + 1
             /\ acq' = [acq EXCEPT ![j].result = sessions[e].st, ![j].done = TRUE]
             /\ AcqReturn(j, sessions[e].st)
        ELSE /\ pc' = [pc EXCEPT ![j] =
                    IF sessions[e].st.reconnect THEN "ens_reconnect" ELSE "ens_deact"]
             /\ UNCHANGED <<sessions, clock, acq, exc>>

\* A reconnect that stores the exported bundle in a row of its own: the
\* behaviour C22 excludes.
ReconnectInsertsRow(e, st) ==
    sessions \o <<SessionRow(sessions[e].owner, st, clock + 1)>>

\* Lines 583-585: existing.storage_state = storage_state; existing.last_used_at
\* = now; commit.
ReconnectedSessions(e, st) ==
    [sessions EXCEPT ![e].st = st, ![e].last_used = clock + 1, ![e].upd = clock + 1]

\* _refresh_session_via_reconnect (573-593): on an export with cookies the
\* same row gets the new bundle; every failure falls through.
EnsReconnect(j) ==
    /\ pc[j] = "ens_reconnect"
    /\ storeUp
    /\ UNCHANGED <<cfg, scrapeVars, storeUp, jobs, req, runs, res, imp, storeVars>>
    /\ \E ok \in BOOLEAN :
        LET e == acq[j].existing
            st == Bundle("reconnect", j, "valid", FALSE) IN
        IF ok
        THEN /\ e \notin LockedExceptJob(j)
             /\ sessions' = ReconnectedSessions(e, st)
             /\ clock' = clock + 1
             /\ acq' = [acq EXCEPT ![j].result = st, ![j].done = TRUE]
             /\ AcqReturn(j, st)
        ELSE /\ pc' = [pc EXCEPT ![j] = "ens_deact"]
             /\ UNCHANGED <<sessions, clock, acq, exc>>

\* Lines 747-748: existing.is_active = False; db.commit().
EnsDeact(j) ==
    /\ pc[j] = "ens_deact"
    /\ storeUp
    /\ acq[j].existing \notin LockedExceptJob(j)
    /\ sessions' = [sessions EXCEPT ![acq[j].existing].active = FALSE,
                                    ![acq[j].existing].upd = clock + 1]
    /\ clock' = clock + 1
    /\ pc' = [pc EXCEPT ![j] = "login"]
    /\ UNCHANGED <<cfg, scrapeVars, storeUp, jobs, req, runs, res, exc, acq, imp, storeVars>>

(***************************************************************************)
(* _login_and_save_session (773-895) inside the retry loop (751-771).      *)
(***************************************************************************)
\* What one run of the login procedure can end with before it touches the
\* store: the agent, the export of the storage state and the checks on it.
LoginOutcomes ==
    {"ok", "invalid", "not_done", "no_cookies", "websocket", "timeout"}

\* The message of the exception a failed run raises.
LoginError(o) ==
    CASE o = "invalid"    -> MsgLoginInvalid
      [] o = "not_done"   -> MsgLoginNotDone
      [] o = "no_cookies" -> MsgNoCookies
      [] o = "websocket"  -> MsgWebsocket
      [] o = "timeout"    -> MsgTimeout
      [] OTHER            -> NoText

\* Whether a run with outcome o reached lines 836-838, which put back the
\* stop routine that lines 816-825 replaced by a no-op: the agent's
\* exceptions and the raises of lines 830 and 833 come before them.
StopRestored(o) == o \in {"ok", "no_cookies"}

\* _safe_stop_session (273-282) calls whatever session.stop is at that
\* moment: the browser session is stopped when it is the real routine.
SafeStopSession(stop_is_real) == stop_is_real

\* Lines 785 and 827-864: the browser session, agent.run(), the
\* LOGIN_INVALID check, the export; for a failed run also the finally
\* block (887-895) with browserless_session_enabled at its default
\* (config.py 28), that is _safe_stop_session and no stop URL.
LoginRun(j) ==
    /\ pc[j] = "login"
    /\ UNCHANGED <<cfg, scrapeVars, storeUp, jobs, req, runs, res, exc, sessions, clock, imp, storeVars>>
    /\ \E o \in LoginOutcomes, rc \in BOOLEAN :
        IF o = "ok"
        THEN /\ acq' = [acq EXCEPT ![j].logins = @ + 1,
                                   ![j].attached = @ + 1,
                                   ![j].newst = Bundle("login", j, "valid", rc)]
             /\ pc' = [pc EXCEPT ![j] = "login_update"]
        ELSE /\ rc = FALSE
             /\ acq' = [acq EXCEPT ![j].logins = @ + 1,
                                   ![j].attached =
                                       IF SafeStopSession(StopRestored(o))
                                       THEN @ ELSE @ + 1,
                                   ![j].lastErr = LoginError(o),
                                   ![j].invalidAt =
                                       IF o = "invalid" THEN acq[j].attempt ELSE @]
             /\ pc' = [pc EXCEPT ![j] = "login_failed"]

\* A loop that looks at the attempt number only: the behaviour C9 excludes.
LoginLoopUnclassified(attempt, err) == ~(attempt >= BrowserUseMaxRetries)

\* Whether the loop goes on after the failure of attempt `attempt` (757).
LoginLoopContinues(attempt, err) ==
    ~(attempt >= BrowserUseMaxRetries \/ ~ShouldRetryLoginError(err))

\* Lines 752-770: the except branch of the loop; the loop ends by the break
\* or with the range 1..browser_use_max_retries, then raise last_error.
LoginFailed(j) ==
    /\ pc[j] = "login_failed"
    /\ UNCHANGED <<cfg, scrapeVars, storeUp, jobs, req, runs, res, sessions, clock, imp, storeVars>>
    /\ IF LoginLoopContinues(acq[j].attempt, acq[j].lastErr)
          /\ acq[j].attempt < BrowserUseMaxRetries
       THEN /\ acq' = [acq EXCEPT ![j].attempt = @ + 1]
            /\ pc' = [pc EXCEPT ![j] = "login"]
            /\ exc' = exc
       ELSE /\ acq' = [acq EXCEPT ![j].done = TRUE]
            /\ AcqRaise(j, acq[j].lastErr)

\* Which rows the statement "UPDATE instagram_sessions SET is_active = false
\* WHERE is_active" (867-871; import script 69-73) deactivates.
DeactivateAllTargets == ActiveIds

\* Lines 867-871: the UPDATE, inside the transaction of the job's db session;
\* when it raises, the finally block (887-895) stops the browser session.
LoginUpdate(j) ==
    /\ pc[j] = "login_update"
    /\ IF ~storeUp
       THEN /\ acq' = [acq EXCEPT ![j].lastErr = MsgDbError,
                                  ![j].attached = @ - 1]
            /\ pc' = [pc EXCEPT ![j] = "login_failed"]
       ELSE /\ DeactivateAllTargets \cap LockedExceptJob(j) = {}
            /\ acq' = [acq EXCEPT ![j].deact = DeactivateAllTargets]
            /\ pc' = [pc EXCEPT ![j] = "login_commit"]
    /\ UNCHANGED <<cfg, scrapeVars, storeUp, jobs, req, runs, res, exc, sessions, clock, imp, storeVars>>

\* The committed table after a transaction that deactivated `deact` and
\* inserted one active row.
CommitSessionSwap(deact, owner, st) ==
    [i \in DOMAIN sessions |->
        IF i \in deact THEN [sessions[i] EXCEPT !.active = FALSE, !.upd = clock + 1]
        ELSE sessions[i]]
    \o <<SessionRow(owner, st, clock + 1)>>

\* Lines 873-895: the INSERT of the new active row, the commit and the
\* finally block, which stops the browser session.
LoginCommit(j) ==
    /\ pc[j] = "login_commit"
    /\ UNCHANGED <<cfg, scrapeVars, storeUp, jobs, req, runs, res, imp, storeVars>>
    /\ IF ~storeUp
       THEN /\ acq' = [acq EXCEPT ![j].lastErr = MsgDbError, ![j].deact = {},
                                  ![j].attached = @ - 1]
            /\ pc' = [pc EXCEPT ![j] = "login_failed"]
            /\ UNCHANGED <<sessions, clock, exc>>
       ELSE /\ sessions' = CommitSessionSwap(acq[j].deact, ConfiguredUser, acq[j].newst)
            /\ clock' = clock + 1
            /\ acq' = [acq EXCEPT ![j].deact = {}, ![j].created = Len(sessions) + 1,
                                  ![j].attached = @ - 1,
                                  ![j].result = acq[j].newst, ![j].done = TRUE]
            /\ AcqReturn(j, acq[j].newst)

(***************************************************************************)
(* scripts/import_instagram_session.py: _run, _validate_state and          *)
(* _persist_session, run as a process of its own.                          *)
(***************************************************************************)
ImpIdle == [pc |-> "idle", owner |-> NoOwner, st |-> NoState, deact |-> {}]

\* _run (89-97): the state read from the file passed _validate_state.
ImportStart(i) ==
    /\ imp[i].pc = "idle"
    /\ \E u \in Principals \cup {NoOwner}, a \in AuthStates :
        imp' = [imp EXCEPT ![i] = [pc |-> "update", owner |-> u,
                                   st |-> Bundle("import", i, a, FALSE), deact |-> {}]]
    /\ UNCHANGED <<cfg, scrapeVars, storeUp, jobVars, sessVars, storeVars>>

\* _persist_session 69-73: the UPDATE.
ImportUpdate(i) ==
    /\ imp[i].pc = "update"
    /\ storeUp
    /\ DeactivateAllTargets \cap LockedExceptImport(i) = {}
    /\ imp' = [imp EXCEPT ![i].deact = DeactivateAllTargets, ![i].pc = "commit"]
    /\ UNCHANGED <<cfg, scrapeVars, storeUp, jobVars, sessVars, storeVars>>

\* _persist_session 75-84: the INSERT and the commit.
ImportCommit(i) ==
    /\ imp[i].pc = "commit"
    /\ storeUp
    /\ sessions' = CommitSessionSwap(imp[i].deact, imp[i].owner, imp[i].st)
    /\ clock' = clock + 1
    /\ imp' = [imp EXCEPT ![i].deact = {}, ![i].pc = "done"]
    /\ UNCHANGED <<cfg, scrapeVars, storeUp, jobVars, acq, storeVars>>

(***************************************************************************)
(* Job rows and the background runners (routes.py 946-1321).               *)
(***************************************************************************)
\* The row the route handler inserts (routes.py 131-138, 508-518, 622-632).
PendingJob ==
    [status |-> "pending", started_at |-> NoTime, completed_at |-> NoTime,
     error_message |-> NoText, posts_scraped |-> 0, interactions_scraped |-> 0,
     meta_result |-> "none"]

NoResult == [status |-> "none", posts |-> 0, inter |-> 0, error |-> NoText,
             data_error |-> NoText]
Result(status, np, ni, err, derr) ==
    [status |-> status, posts |-> np, inter |-> ni, error |-> err, data_error |-> derr]

\* The dummy results of test mode (998-1068, 1189-1198, 1270-1279).
TestResult(kind, flow) ==
    IF kind = "profile"
    THEN IF flow = "recent_likes" THEN Result("success", 2, 2, NoText, NoText)
                                  ELSE Result("success", 1, 0, NoText, NoText)
    ELSE Result("success", 0, 0, NoText, NoText)

\* The dispatcher (BackgroundTasks.add_task, routes.py 141, 520, 634; an
\* external job queue in the design) invokes the runner of a job. The runners
\* take the job id only: nothing in them looks at the status the row has.
Invoke(j) ==
    /\ pc[j] \in {"queued", "done"}
    /\ runs[j] < MaxRuns
    /\ runs' = [runs EXCEPT ![j] = @ + 1]
    /\ pc' = [pc EXCEPT ![j] = "start"]
    /\ exc' = [exc EXCEPT ![j] = NoText]
    /\ res' = [res EXCEPT ![j] = NoResult]
    /\ acq' = [acq EXCEPT ![j] = AcqIdle]
    /\ UNCHANGED <<cfg, scrapeVars, storeUp, jobs, req, sessions, clock, imp, storeVars>>

\* The row after "job.status = 'running'; job.started_at = utcnow()".
MarkRunning(row, now) == [row EXCEPT !.status = "running", !.started_at = now]

\* Lines 957-967 (1139-1147, 1258-1266): look the job up, mark it running,
\* commit. A statement that raises goes to the catch-all.
RunnerStart(j) ==
    /\ pc[j] = "start"
    /\ IF storeUp
       THEN /\ jobs' = [jobs EXCEPT ![j] = MarkRunning(jobs[j], runs[j])]
            /\ pc' = [pc EXCEPT ![j] = "body"]
            /\ exc' = exc
       ELSE /\ pc' = [pc EXCEPT ![j] = "handler"]
            /\ exc' = [exc EXCEPT ![j] = MsgDbError]
            /\ jobs' = jobs
    /\ UNCHANGED <<cfg, scrapeVars, storeUp, req, runs, res, sessVars, imp, storeVars>>

\* The row after the success branch of _scrape_profile_background (1087-1106).
MarkCompleted(row, now, r) ==
    [row EXCEPT !.status = "completed", !.completed_at = now,
                !.posts_scraped = r.posts, !.interactions_scraped = r.inter,
                !.meta_result = r.status]

\* The error text of a generic result (1213-1217).
GenericErrorMessage(r) ==
    LET e1 == IF r.error # NoText THEN r.error ELSE r.data_error
    IN  IF r.status = "failed" /\ e1 = NoText THEN MsgGenericFailed ELSE e1

\* The row after lines 1206-1228 (generic) and 1291-1307 (investing).
MarkFromResult(row, now, r, msg) ==
    [row EXCEPT !.status = IF msg # NoText THEN "failed" ELSE "completed",
                !.error_message = msg,
                !.completed_at = now,
                !.posts_scraped = 0, !.interactions_scraped = 0,
                !.meta_result = r.status]

FinalRow(j) ==
    CASE req[j].kind = "profile"   -> MarkCompleted(jobs[j], runs[j], res[j])
      [] req[j].kind = "generic"   ->
            MarkFromResult(jobs[j], runs[j], res[j], GenericErrorMessage(res[j]))
      [] req[j].kind = "investing" ->
            MarkFromResult(jobs[j], runs[j], res[j], res[j].error)

\* The end of the try block: the row gets the result and is committed.
RunnerFinalize(j) ==
    /\ pc[j] = "finalize"
    /\ IF storeUp
       THEN /\ jobs' = [jobs EXCEPT ![j] = FinalRow(j)]
            /\ pc' = [pc EXCEPT ![j] = "done"]
            /\ exc' = exc
       ELSE /\ pc' = [pc EXCEPT ![j] = "handler"]
            /\ exc' = [exc EXCEPT ![j] = MsgDbError]
            /\ jobs' = jobs
    /\ UNCHANGED <<cfg, scrapeVars, storeUp, req, runs, res, sessVars, imp, storeVars>>

\* A catch-all that stores the error and leaves completed_at as it was: the
\* behaviour C27 excludes.
MarkFailedUnstamped(row, now, msg) ==
    [row EXCEPT !.status = "failed", !.error_message = msg]

\* The row after the catch-all (1113-1119, 1233-1239, 1312-1318).
MarkFailed(row, now, msg) ==
    [row EXCEPT !.status = "failed", !.error_message = msg, !.completed_at = now]

\* "except Exception as e": look the job up again, mark it failed, commit.
\* A statement that raises here leaves the handler with that exception; the
\* finally clause closes the session and the runner ends.
RunnerHandler(j) ==
    /\ pc[j] = "handler"
    /\ jobs' = IF storeUp
               THEN [jobs EXCEPT ![j] = MarkFailed(jobs[j], runs[j], exc[j])]
               ELSE jobs
    /\ pc' = [pc EXCEPT ![j] = "done"]
    /\ exc' = [exc EXCEPT ![j] = IF storeUp THEN exc[j] ELSE MsgDbError]
    /\ UNCHANGED <<cfg, scrapeVars, storeUp, req, runs, res, sessVars, imp, storeVars>>

(***************************************************************************)
(* The persistence layer (instagram_scraper.py 1380-1544).                 *)
(***************************************************************************)
\* str.lower() on the usernames the extraction stages report ("ana", "Ana",
\* "bia").
Lower(u) == IF u = "Ana" THEN "ana" ELSE u

\* _extract_username_from_url: the last path segment of the profile URLs
\* "ig/ana/" and "ig/bia/".
ExtractUsernameFromUrl(url) == IF url = "ig/ana/" THEN "ana" ELSE "bia"

\* post_url NULL or empty.
NoUrl == "no_url"

ProfileRow(username, url, info, now) ==
    [username |-> username, url |-> url, info |-> info, last_scraped |-> now]

\* The rows the lookup of _save_profile matches (1399-1402):
\* lower(instagram_username) = username OR instagram_url = url.
ProfileMatches(username, url) ==
    {i \in DOMAIN profiles :
        Lower(profiles[i].username) = username \/ profiles[i].url = url}

\* UNIQUE (instagram_username) of models.py:28, for a row written at id
\* `self` (0: a new row).
ProfileUsernameTaken(username, self) ==
    \E i \in DOMAIN profiles : i # self /\ profiles[i].username = username

\* Locals of the save functions of one job; fposts and finter are the rows
\* its open transaction has flushed, pend the Interaction objects added to
\* the session and not flushed yet (the session has autoflush=False,
\* database.py:27).
SvIdle ==
    [ret |-> "none", username |-> "", url |-> "", info |-> "none",
     existing |-> 0, pid |-> 0, pi |-> 0, found |-> FALSE, fposts |-> {},
     finter |-> {}, pend |-> <<>>, posts |-> <<>>, raised |-> "none"]

\* The call _save_profile(db, profile_url, profile_info), continuing at ret.
SaveProfileCall(j, ret, username, info) ==
    [SvIdle EXCEPT !.ret = ret, !.username = Lower(username),
                   !.url = data[j].url, !.info = info, !.pid = sv[j].pid]

\* Lines 1390-1402: normalisation and the lookup. first() on a query with no
\* ORDER BY returns any one of the matching rows.
SaveProfileLookup(j) ==
    /\ pc[j] = "svp_lookup"
    /\ storeUp
    /\ LET m == ProfileMatches(sv[j].username, sv[j].url) IN
       \E e \in (IF m = {} THEN {0} ELSE m) :
           sv' = [sv EXCEPT ![j].existing = e]
    /\ pc' = [pc EXCEPT ![j] = "svp_commit"]
    /\ UNCHANGED <<cfg, scrapeVars, storeUp, jobs, req, runs, exc, res, sessVars, imp,
                   profiles, posts, interactions, data>>

\* Whether the flush of _save_profile violates the unique username.
SaveProfileConflict(j) == ProfileUsernameTaken(sv[j].username, sv[j].existing)

\* Lines 1406-1442: update the row found or insert a new one, commit; an
\* exception is logged, the session rolled back and the exception raised.
SaveProfileCommit(j) ==
    /\ pc[j] = "svp_commit"
    /\ UNCHANGED <<cfg, scrapeVars, storeUp, jobs, req, runs, res, sessVars, imp,
                   posts, interactions, data>>
    /\ IF ~storeUp \/ SaveProfileConflict(j)
       THEN /\ pc' = [pc EXCEPT ![j] = "handler"]
            /\ exc' = [exc EXCEPT ![j] = IF storeUp THEN MsgDupProfile ELSE MsgDbError]
            /\ sv' = [sv EXCEPT ![j] = [SvIdle EXCEPT !.raised = "profile",
                                                     !.existing = sv[j].existing]]
            /\ profiles' = profiles
       ELSE LET row == ProfileRow(sv[j].username, sv[j].url, sv[j].info, runs[j])
                e == sv[j].existing IN
            /\ profiles' = IF e # 0 THEN [profiles EXCEPT ![e] = row]
                           ELSE Append(profiles, row)
            /\ sv' = [sv EXCEPT ![j].pid = IF e # 0 THEN e ELSE Len(profiles) + 1]
            /\ pc' = [pc EXCEPT ![j] = sv[j].ret]
            /\ exc' = exc

\* Post and interaction rows. The primary key of a post is a fresh uuid; at
\* most one row per URL is ever committed, so the URL stands for it.
PostRow(url, pid) == [url |-> url, profile_id |-> pid]
InteractionRow(d, postId, pid) ==
    [post_url |-> d.post_url, post_id |-> postId, profile_id |-> pid,
     user_url |-> d.user_url, type |-> d.type, text |-> d.text]

\* The natural key of an interaction row.
Triple(r) == <<r.post_url, r.user_url, r.type>>

\* InteractionType (models.py 15-20).
InteractionTypes == {"like", "comment", "share", "save"}

\* The rows a statement of job j sees: the committed ones and those its own
\* transaction has flushed.
VisiblePosts(j) == posts \cup sv[j].fposts
VisibleInteractions(j) == interactions \cup sv[j].finter

\* Lines 1492-1499: InteractionType(str(raw).strip().lower()); a value that
\* is no member of the enumeration makes the loop skip the entry.
ParseType(raw) == IF raw = "Comment" THEN "comment" ELSE raw

\* Line 1486: interaction_data.get("_post_url") or post_url.
InteractionPostUrl(d, url) == IF d.post_url # NoUrl THEN d.post_url ELSE url

\* The lookup of lines 1511-1522 among the rows `vis` the statement sees.
InteractionExists(vis, d, url) ==
    \E r \in vis :
        /\ r.user_url = d.user_url
        /\ r.type = ParseType(d.type)
        /\ \/ r.post_url = InteractionPostUrl(d, url)
           \/ r.post_url = NoUrl /\ r.post_id = url

\* The inner loop (1485-1537) for the post at url: the Interaction objects it
\* adds to the session, in order. Objects added earlier in the same call are
\* not flushed, so the lookup does not see them.
InteractionsAdded(j, vis, url) ==
    LET keep(d) == /\ InteractionPostUrl(d, url) # NoUrl
                   /\ InteractionPostUrl(d, url) = url
                   /\ ParseType(d.type) \in InteractionTypes
                   /\ d.user_url # NoUrl
                   /\ ~InteractionExists(vis, d, url)
        kept == SelectSeq(data[j].inter, keep)
    IN  [i \in DOMAIN kept |->
            InteractionRow([kept[i] EXCEPT !.post_url = url,
                                           !.type = ParseType(kept[i].type)],
                           url, sv[j].pid)]

\* Whether flushing the interaction objects in `pend` violates the unique index
\* uq_interactions_post_url_user_url_type (database.py 115-122).
FlushInteractionsConflict(j, pend) ==
    \/ \E a, b \in DOMAIN pend : a # b /\ Triple(pend[a]) = Triple(pend[b])
    \/ \E a \in DOMAIN pend : \E r \in VisibleInteractions(j) :
           r.post_url # NoUrl /\ Triple(r) = Triple(pend[a])

\* What the next flush of job j inserts, and whether it has to wait for a row
\* of the open transaction of job k.
WantedPostUrls(j) ==
    IF pc[j] = "svq_insert" /\ ~sv[j].found
    THEN {sv[j].posts[sv[j].pi]} ELSE {}
WantedTriples(j) ==
    IF pc[j] = "svq_commit" \/ (pc[j] = "svq_insert" /\ ~sv[j].found)
    THEN {Triple(sv[j].pend[a]) : a \in DOMAIN sv[j].pend} ELSE {}
BlockedBy(j, k) ==
    /\ k # j
    /\ \/ WantedPostUrls(j) \cap {r.url : r \in sv[k].fposts} # {}
       \/ WantedTriples(j) \cap {Triple(r) : r \in sv[k].finter} # {}
Blocked(j) == \E k \in JobIds : BlockedBy(j, k)

\* The except branch of both save functions: db.rollback() and raise.
SaveRaise(j, msg) ==
    /\ sv' = [sv EXCEPT ![j] = [SvIdle EXCEPT !.raised = "posts"]]
    /\ pc' = [pc EXCEPT ![j] = "handler"]
    /\ exc' = [exc EXCEPT ![j] = msg]

\* The call _save_posts_and_interactions(db, profile_id, posts, interactions).
SavePostsCall(j, ret, ps) ==
    [SvIdle EXCEPT !.ret = ret, !.pid = sv[j].pid, !.pi = 1, !.posts = ps]
SavePostsEntry(ps) == IF ps = <<>> THEN "svq_commit" ELSE "svq_lookup"

\* Lines 1462-1467: the lookup of the post by URL.
SavePostLookup(j) ==
    /\ pc[j] = "svq_lookup"
    /\ UNCHANGED <<cfg, scrapeVars, storeUp, jobs, req, runs, res, sessVars, imp,
                   profiles, posts, interactions, data>>
    /\ IF ~storeUp
       THEN SaveRaise(j, MsgDbError)
       ELSE /\ sv' = [sv EXCEPT ![j].found =
                        \E r \in VisiblePosts(j) : r.url = sv[j].posts[sv[j].pi]]
            /\ pc' = [pc EXCEPT ![j] = "svq_insert"]
            /\ exc' = exc

\* Lines 1469-1537: insert and flush the post when it was not found (the flush
\* also writes the interaction objects added for earlier posts), then the inner
\* loop over the interactions.
SavePostInsert(j) ==
    /\ pc[j] = "svq_insert"
    /\ ~Blocked(j)
    /\ UNCHANGED <<cfg, scrapeVars, storeUp, jobs, req, runs, res, sessVars, imp,
                   profiles, posts, interactions, data>>
    /\ LET url == sv[j].posts[sv[j].pi]
           flush == ~sv[j].found
           fp == IF flush THEN sv[j].fposts \cup {PostRow(url, sv[j].pid)}
                 ELSE sv[j].fposts
           fi == IF flush THEN sv[j].finter \cup Range(sv[j].pend)
                 ELSE sv[j].finter
           keptPend == IF flush THEN <<>> ELSE sv[j].pend
           last == sv[j].pi >= Len(sv[j].posts)
       IN  IF ~storeUp THEN SaveRaise(j, MsgDbError)
           ELSE IF flush /\ url = NoUrl THEN SaveRaise(j, MsgNotNull)
           ELSE IF flush /\ \E r \in posts : r.url = url
           THEN SaveRaise(j, MsgDupPost)
           ELSE IF flush /\ FlushInteractionsConflict(j, sv[j].pend)
           THEN SaveRaise(j, MsgDupInteraction)
           ELSE /\ sv' = [sv EXCEPT
                            ![j].fposts = fp, ![j].finter = fi,
                            ![j].pend = keptPend \o
                                InteractionsAdded(j, interactions \cup fi, url),
                            ![j].pi = sv[j].pi + 1]
                /\ pc' = [pc EXCEPT ![j] = IF last THEN "svq_commit" ELSE "svq_lookup"]
                /\ exc' = exc

\* Line 1538: the commit flushes what is pending and publishes the rows.
SavePostsCommit(j) ==
    /\ pc[j] = "svq_commit"
    /\ ~Blocked(j)
    /\ UNCHANGED <<cfg, scrapeVars, storeUp, jobs, req, runs, res, sessVars, imp,
                   profiles, data>>
    /\ IF ~storeUp \/ FlushInteractionsConflict(j, sv[j].pend)
       THEN /\ SaveRaise(j, IF storeUp THEN MsgDupInteraction ELSE MsgDbError)
            /\ UNCHANGED <<posts, interactions>>
       ELSE /\ posts' = posts \cup sv[j].fposts
            /\ interactions' = interactions \cup sv[j].finter \cup Range(sv[j].pend)
            /\ sv' = [sv EXCEPT ![j] = [SvIdle EXCEPT !.pid = sv[j].pid]]
            /\ pc' = [pc EXCEPT ![j] = sv[j].ret]
            /\ exc' = exc

\* Two transactions each waiting for a row of the other: the server aborts one
\* of them with a deadlock error.
SaveDeadlock(j) ==
    /\ pc[j] \in {"svq_insert", "svq_commit"}
    /\ \E k \in JobIds : BlockedBy(j, k) /\ BlockedBy(k, j)
    /\ SaveRaise(j, MsgDeadlock)
    /\ UNCHANGED <<cfg, scrapeVars, storeUp, jobs, req, runs, res, sessVars, imp,
                   profiles, posts, interactions, data>>

(***************************************************************************)
(* The bodies of the runners.                                              *)
(***************************************************************************)
\* "if session_username and not storage_state" (instagram_scraper.py 706,
\* 828, 974).
SessionMissing(j) == req[j].session # NoOwner /\ acq[j].result = NoState

\* _scrape_profile_background 969-1085: test mode builds a dummy result, a
\* real run enters the scraper, whose first await is the acquisition.
ProfileBody(j) ==
    /\ pc[j] = "body"
    /\ req[j].kind = "profile"
    /\ IF req[j].test
       THEN /\ res' = [res EXCEPT ![j] = TestResult("profile", req[j].flow)]
            /\ pc' = [pc EXCEPT ![j] = "finalize"]
            /\ acq' = acq
       ELSE /\ acq' = [acq EXCEPT ![j] =
                  AcqCall(j, IF req[j].flow = "recent_likes" THEN "rl_check" ELSE "sp_check")]
            /\ pc' = [pc EXCEPT ![j] = "ens_entry"]
            /\ res' = res
    /\ UNCHANGED <<cfg, scrapeVars, storeUp, jobs, req, runs, exc, sessions, clock, imp, storeVars>>

\* scrape_profile 706-719: the check on the session, then scrape_profile_info,
\* which acquires the session once more (820-827).
ScrapeProfileCheck(j) ==
    /\ pc[j] = "sp_check"
    /\ IF SessionMissing(j)
       THEN /\ pc' = [pc EXCEPT ![j] = "handler"]
            /\ exc' = [exc EXCEPT ![j] = MsgSessionMissing]
            /\ acq' = acq
       ELSE /\ acq' = [acq EXCEPT ![j] = AcqCall(j, "spi_check")]
            /\ pc' = [pc EXCEPT ![j] = "ens_entry"]
            /\ exc' = exc
    /\ UNCHANGED <<cfg, scrapeVars, storeUp, jobs, req, runs, res, sessions, clock, imp, storeVars>>

\* The username scrape_profile_info hands to _save_profile (913): what the
\* extraction reports, else the one in the URL, lowercased.
NormalizedUsername(j) ==
    Lower(IF data[j].username # "" THEN data[j].username
          ELSE ExtractUsernameFromUrl(data[j].url))

\* scrape_profile_info 828-927: the check, the extraction (which raises when
\* it has neither data nor a page to read), then _save_profile.
ScrapeProfileInfo(j) ==
    /\ pc[j] = "spi_check"
    /\ UNCHANGED <<cfg, scrapeVars, storeUp, jobs, req, runs, res, sessVars, imp,
                   profiles, posts, interactions, data>>
    /\ IF SessionMissing(j)
       THEN /\ pc' = [pc EXCEPT ![j] = "handler"]
            /\ exc' = [exc EXCEPT ![j] = MsgSessionMissing]
            /\ sv' = sv
       ELSE \E ok \in BOOLEAN :
            IF ok
            THEN /\ sv' = [sv EXCEPT ![j] =
                       SaveProfileCall(j, "sp_scrape", NormalizedUsername(j), data[j].info)]
                 /\ pc' = [pc EXCEPT ![j] = "svp_lookup"]
                 /\ exc' = exc
            ELSE /\ pc' = [pc EXCEPT ![j] = "handler"]
                 /\ exc' = [exc EXCEPT ![j] = MsgProfileFailed]
                 /\ sv' = sv

\* scrape_profile 721-745: posts and their interactions are collected (a
\* failure there yields empty lists), then _save_profile again.
ScrapeProfilePosts(j) ==
    /\ pc[j] = "sp_scrape"
    /\ sv' = [sv EXCEPT ![j] =
           SaveProfileCall(j, "sp_save", NormalizedUsername(j), data[j].info)]
    /\ pc' = [pc EXCEPT ![j] = "svp_lookup"]
    /\ UNCHANGED <<cfg, scrapeVars, storeUp, jobs, req, runs, exc, res, sessVars, imp,
                   profiles, posts, interactions, data>>

\* The posts list a flow passes to _save_posts_and_interactions: the default
\* flow passes posts_data as scraped, recent_likes the posts that have a URL
\* (995-997).
FlowPosts(j) ==
    IF req[j].flow = "recent_likes"
    THEN SelectSeq(data[j].posts, LAMBDA u : u # NoUrl)
    ELSE data[j].posts

\* Line 746 (1098): _save_posts_and_interactions with the id of the row
\* _save_profile returned.
ScrapeSavePosts(j) ==
    /\ pc[j] \in {"sp_save", "rl_save"}
    /\ sv' = [sv EXCEPT ![j] = SavePostsCall(j, "flow_result", FlowPosts(j))]
    /\ pc' = [pc EXCEPT ![j] = SavePostsEntry(FlowPosts(j))]
    /\ UNCHANGED <<cfg, scrapeVars, storeUp, jobs, req, runs, exc, res, sessVars, imp,
                   profiles, posts, interactions, data>>

\* The summary of the result (762-766, 1081-1086) as the runner reads it.
FlowResult(j) ==
    IF req[j].flow = "recent_likes"
    THEN Result("success", Len(FlowPosts(j)),
                Len(SelectSeq(data[j].inter, LAMBDA d : d.type = "like")),
                NoText, NoText)
    ELSE Result("success", Len(data[j].posts), Len(data[j].inter), NoText, NoText)

ScrapeReturn(j) ==
    /\ pc[j] = "flow_result"
    /\ res' = [res EXCEPT ![j] = FlowResult(j)]
    /\ sv' = [sv EXCEPT ![j] = SvIdle]
    /\ pc' = [pc EXCEPT ![j] = "finalize"]
    /\ UNCHANGED <<cfg, scrapeVars, storeUp, jobs, req, runs, exc, sessVars, imp,
                   profiles, posts, interactions, data>>

\* scrape_recent_posts_like_users 974-1097: the check, the collection of
\* posts, likers and comments, then _save_profile with the username of the
\* URL and no attributes.
RecentLikes(j) ==
    /\ pc[j] = "rl_check"
    /\ UNCHANGED <<cfg, scrapeVars, storeUp, jobs, req, runs, res, sessVars, imp,
                   profiles, posts, interactions, data>>
    /\ IF SessionMissing(j)
       THEN /\ pc' = [pc EXCEPT ![j] = "handler"]
            /\ exc' = [exc EXCEPT ![j] = MsgSessionMissing]
            /\ sv' = sv
       ELSE /\ sv' = [sv EXCEPT ![j] =
                  SaveProfileCall(j, "rl_save", ExtractUsernameFromUrl(data[j].url), "none")]
            /\ pc' = [pc EXCEPT ![j] = "svp_lookup"]
            /\ exc' = exc

\* What generic_scrape can return: success, a failure with or without an
\* error text, a success whose data carries an error.
GenericScrapeResults ==
    {Result("success", 0, 0, NoText, NoText),
     Result("failed", 0, 0, MsgAgentError, NoText),
     Result("failed", 0, 0, NoText, NoText),
     Result("success", 0, 0, NoText, MsgAgentError)}

\* _generic_scrape_background 1149-1160 and 1187-1198: test mode builds a dummy
\* result; a real run looks the session up and fails when the one it names is
\* not there.
GenericBody(j) ==
    /\ pc[j] = "body"
    /\ req[j].kind = "generic"
    /\ UNCHANGED <<cfg, scrapeVars, storeUp, jobs, req, runs, sessions, clock, imp, storeVars>>
    /\ IF req[j].test
       THEN /\ res' = [res EXCEPT ![j] = TestResult("generic", req[j].flow)]
            /\ pc' = [pc EXCEPT ![j] = "finalize"]
            /\ UNCHANGED <<acq, exc>>
       ELSE IF ~storeUp
       THEN /\ pc' = [pc EXCEPT ![j] = "handler"]
            /\ exc' = [exc EXCEPT ![j] = MsgDbError]
            /\ UNCHANGED <<acq, res>>
       ELSE LET e == GetActiveInstagramSession(req[j].session) IN
            IF req[j].session # NoOwner /\ e = 0
            THEN /\ pc' = [pc EXCEPT ![j] = "handler"]
                 /\ exc' = [exc EXCEPT ![j] = MsgSessionMissing]
                 /\ UNCHANGED <<acq, res>>
            ELSE /\ acq' = [acq EXCEPT ![j] = [AcqIdle EXCEPT !.existing = e]]
                 /\ pc' = [pc EXCEPT ![j] = IF e # 0 THEN "g_validate" ELSE "g_scrape"]
                 /\ UNCHANGED <<res, exc>>

\* Lines 1161-1183: is_instagram_session_valid, then the row is deactivated
\* (and the run fails when it named the session) or touched.
GenericValidate(j) ==
    /\ pc[j] = "g_validate"
    /\ storeUp
    /\ acq[j].existing \notin LockedExceptJob(j)
    /\ UNCHANGED <<cfg, scrapeVars, storeUp, jobs, req, runs, res, imp, storeVars>>
    /\ clock' = clock + 1
    /\ \E valid \in BOOLEAN :
        LET e == acq[j].existing IN
        IF valid
        THEN /\ sessions' = TouchedSessions(e)
             /\ acq' = [acq EXCEPT ![j].result = sessions[e].st]
             /\ pc' = [pc EXCEPT ![j] = "g_scrape"]
             /\ exc' = exc
        ELSE /\ sessions' = [sessions EXCEPT ![e].active = FALSE, ![e].upd = clock + 1]
             /\ acq' = acq
             /\ IF req[j].session # NoOwner
                THEN /\ pc' = [pc EXCEPT ![j] = "handler"]
                     /\ exc' = [exc EXCEPT ![j] = MsgSessionExpired]
                ELSE /\ pc' = [pc EXCEPT ![j] = "g_scrape"]
                     /\ exc' = exc

\* Lines 1200-1204 and 1285-1289: generic_scrape returns a result or raises.
GenericScrape(j) ==
    /\ pc[j] = "g_scrape"
    /\ UNCHANGED <<cfg, scrapeVars, storeUp, jobs, req, runs, sessVars, imp, storeVars>>
    /\ \/ \E r \in GenericScrapeResults :
            /\ res' = [res EXCEPT ![j] = r]
            /\ pc' = [pc EXCEPT ![j] = "finalize"]
            /\ exc' = exc
       \/ /\ pc' = [pc EXCEPT ![j] = "handler"]
          /\ exc' = [exc EXCEPT ![j] = MsgAgentError]
          /\ res' = res

\* _investing_scrape_background 1268-1283: test mode, or a session for the
\* Investing site, without which the run fails.
InvestingBody(j) ==
    /\ pc[j] = "body"
    /\ req[j].kind = "investing"
    /\ UNCHANGED <<cfg, scrapeVars, storeUp, jobs, req, runs, sessVars, imp, storeVars>>
    /\ IF req[j].test
       THEN /\ res' = [res EXCEPT ![j] = TestResult("investing", req[j].flow)]
            /\ pc' = [pc EXCEPT ![j] = "finalize"]
            /\ exc' = exc
       ELSE \E got \in BOOLEAN :
            /\ res' = res
            /\ pc' = [pc EXCEPT ![j] = IF got THEN "g_scrape" ELSE "handler"]
            /\ exc' = [exc EXCEPT ![j] = IF got THEN exc[j] ELSE MsgNoInvesting]

(***************************************************************************)
(* Faults of the store.                                                    *)
(***************************************************************************)
\* The database becomes unreachable and every statement raises until it is
\* back. The outages considered begin while no process is inside a
\* transaction that has written rows.
InTransaction ==
    \/ \E j \in JobIds : pc[j] \in {"login_commit", "svq_lookup", "svq_insert", "svq_commit"}
    \/ \E i \in ImportIds : imp[i].pc = "commit"

Outage ==
    /\ storeUp
    /\ ~InTransaction
    /\ storeUp' = FALSE
    /\ UNCHANGED <<cfg, scrapeVars, jobVars, sessVars, imp, storeVars>>

Recover ==
    /\ ~storeUp
    /\ storeUp' = TRUE
    /\ UNCHANGED <<cfg, scrapeVars, jobVars, sessVars, imp, storeVars>>

(***************************************************************************)
(* Specifications.                                                         *)
(***************************************************************************)
\* The scraped world of one job: the profile URL, the username and the
\* attributes the extraction reports, the posts and the interactions.
Datum(url, username, info, ps, inter) ==
    [url |-> url, username |-> username, info |-> info, posts |-> ps, inter |-> inter]
IData(purl, uurl, type, text) ==
    [post_url |-> purl, user_url |-> uurl, type |-> type, text |-> text]

NoData == Datum("ig/ana/", "", "none", <<>>, <<>>)

\* Requests: the three job kinds, the two profile flows, test mode, and the
\* session a request may name.
Request(kind, flow, test, session) ==
    [kind |-> kind, flow |-> flow, test |-> test, session |-> session]

RealRequests ==
    {Request("profile", f, t, s) :
        f \in Flows, t \in BOOLEAN, s \in {NoOwner, "bob"}}
    \cup {Request(k, "generic", FALSE, s) :
        k \in {"generic", "investing"}, s \in {NoOwner, "bob"}}
TestRequests == {Request("generic", "generic", TRUE, NoOwner)}

\* Session tables the store may hold when the jobs are created.
InitSessionTables ==
    {<<>>,
     <<SessionRow("alice", Bundle("login", 0, "valid", FALSE), 0)>>,
     <<SessionRow("alice", Bundle("login", 0, "expired", TRUE), 0)>>}

SmallData ==
    {Datum("ig/ana/", "Ana", "v1", <<"p1">>,
           <<IData("p1", "u1", "comment", "t1"), IData("p1", "u2", "like", "")>>)}

InitCommon ==
    /\ storeUp = TRUE
    /\ clock = 0
    /\ jobs = [j \in JobIds |-> PendingJob]
    /\ runs = [j \in JobIds |-> 0]
    /\ pc = [j \in JobIds |-> "queued"]
    /\ exc = [j \in JobIds |-> NoText]
    /\ res = [j \in JobIds |-> NoResult]
    /\ acq = [j \in JobIds |-> AcqIdle]
    /\ imp = [i \in ImportIds |-> [ImpIdle EXCEPT !.pc = "done"]]
    /\ profiles = <<>>
    /\ posts = {}
    /\ interactions = {}
    /\ sv = [j \in JobIds |-> SvIdle]

\* The state after the API has created the jobs (routes.py 130-141).
Init ==
    /\ InitCommon
    /\ sp = SpIdle
    /\ rl = RlIdle
    /\ call = CallIdle
    /\ cfg \in [creds : BOOLEAN, strict : BOOLEAN]
    /\ sessions \in InitSessionTables
    /\ \E r1 \in RealRequests, r2 \in TestRequests :
           req = [j \in JobIds |-> IF j = 1 THEN r1 ELSE r2]
    /\ \E d \in SmallData : data = [j \in JobIds |-> d]

JobStep(j) ==
    \/ Invoke(j) \/ RunnerStart(j) \/ RunnerFinalize(j) \/ RunnerHandler(j)
    \/ ProfileBody(j) \/ ScrapeProfileCheck(j) \/ ScrapeProfileInfo(j)
    \/ ScrapeProfilePosts(j) \/ ScrapeSavePosts(j) \/ ScrapeReturn(j)
    \/ RecentLikes(j)
    \/ GenericBody(j) \/ GenericValidate(j) \/ GenericScrape(j) \/ InvestingBody(j)

AcquireStep(j) ==
    \/ EnsEntry(j) \/ EnsValidate(j) \/ EnsReconnect(j) \/ EnsDeact(j)
    \/ LoginRun(j) \/ LoginFailed(j) \/ LoginUpdate(j) \/ LoginCommit(j)

SaveStep(j) ==
    \/ SaveProfileLookup(j) \/ SaveProfileCommit(j)
    \/ SavePostLookup(j) \/ SavePostInsert(j) \/ SavePostsCommit(j)

Next == \E j \in JobIds : JobStep(j) \/ AcquireStep(j) \/ SaveStep(j)

Spec == Init /\ [][Next]_vars

\* One dispatched job and a store that can fail; the other jobs stay queued.
NextOutage ==
    \/ JobStep(1) \/ AcquireStep(1) \/ SaveStep(1)
    \/ Outage
    \/ Recover

SpecOutage == Init /\ [][NextOutage]_vars

(***************************************************************************)
(* Job status (claims C1, C2, C3, C8).                                     *)
(***************************************************************************)
Terminal == {"completed", "failed"}

ForwardMoves ==
    {<<"pending", "running">>, <<"running", "completed">>, <<"running", "failed">>}

\* C1: every change of a job's persisted status is pending -> running,
\* running -> completed or running -> failed, so that over any sequence of
\* runner invocations the status never moves backward.
C1_StatusOnlyMovesForward ==
    [][\A j \in JobIds :
          jobs'[j].status # jobs[j].status
              => <<jobs[j].status, jobs'[j].status>> \in ForwardMoves]_vars

\* C2: a job that entered running reaches completed or failed: once its runner
\* has ended, the row is not left in running, whatever failed on the way (the
\* final commit, the lookup or the commit of the catch-all handler).
C2_EndedRunnerLeavesNoRunningJob ==
    \A j \in JobIds : pc[j] = "done" => jobs[j].status # "running"

\* C3: a runner invoked for a job that is already completed or failed does no
\* scraping and leaves the row as it is.
C3_TerminalJobIsLeftAlone ==
    [][\A j \in JobIds :
          (pc[j] = "start" /\ jobs[j].status \in Terminal)
              => (jobs'[j] = jobs[j] /\ pc'[j] \in {"start", "done"})]_vars

\* A real run of the profile runner that named a session and whose acquisition
\* ended with no credential bundle (it returned none or raised).
NamedSessionNotObtained(j) ==
    /\ req[j].kind = "profile"
    /\ ~req[j].test
    /\ req[j].session # NoOwner
    /\ acq[j].done
    /\ acq[j].result = NoState

\* C8: a real run of the profile runner, in either flow, that names a session
\* for which no usable session can be obtained ends failed, with an error
\* message and a completion time, and never completed.
C8_MissingSessionEndsFailed ==
    \A j \in JobIds :
        (pc[j] = "done" /\ NamedSessionNotObtained(j))
            => /\ jobs[j].status = "failed"
               /\ jobs[j].error_message # NoText
               /\ jobs[j].completed_at # NoTime

(***************************************************************************)
(* Session acquisition beside imports (claims C4, C9, C10).                *)
(***************************************************************************)
ImportStep(i) == ImportStart(i) \/ ImportUpdate(i) \/ ImportCommit(i)

\* Every job is inside a real run of the profile runner, at a call of
\* ensure_instagram_session, which is followed up to its return ("returned") or
\* its exception ("raised"); the import script has not started.
InitSessions ==
    /\ storeUp = TRUE
    /\ sp = SpIdle
    /\ rl = RlIdle
    /\ call = CallIdle
    /\ clock = 0
    /\ cfg \in [creds : BOOLEAN, strict : BOOLEAN]
    /\ sessions \in InitSessionTables
    /\ jobs = [j \in JobIds |-> MarkRunning(PendingJob, 1)]
    /\ runs = [j \in JobIds |-> 1]
    /\ req = [j \in JobIds |-> Request("profile", "default", FALSE, NoOwner)]
    /\ pc = [j \in JobIds |-> "ens_entry"]
    /\ exc = [j \in JobIds |-> NoText]
    /\ res = [j \in JobIds |-> NoResult]
    /\ acq = [j \in JobIds |-> AcqCall(j, "returned")]
    /\ imp = [i \in ImportIds |-> ImpIdle]
    /\ profiles = <<>>
    /\ posts = {}
    /\ interactions = {}
    /\ data = [j \in JobIds |-> NoData]
    /\ sv = [j \in JobIds |-> SvIdle]

NextSessions ==
    \/ \E j \in JobIds : AcquireStep(j)
    \/ \E i \in ImportIds : ImportStep(i)

SpecSessions == InitSessions /\ [][NextSessions]_vars

\* The principals a session row can belong to.
Owners == Principals \cup {NoOwner}

ActiveOf(p) == {i \in ActiveIds : sessions[i].owner = p}

\* C4: in every interleaving of session acquisitions and imports, at most one
\* committed session row per principal is active.
C4_OneActiveSessionPerPrincipal ==
    \A p \in Owners : Cardinality(ActiveOf(p)) <= 1

\* C9: one acquisition runs the login procedure at most
\* browser_use_max_retries times; a further attempt begins only after the
\* previous one raised a retryable error; any other error is raised to the
\* caller with no further attempt.
C9_LoginRetriesBounded ==
    \A j \in JobIds :
        /\ acq[j].logins <= BrowserUseMaxRetries
        /\ (pc[j] = "login" /\ acq[j].attempt > 1)
               => ShouldRetryLoginError(acq[j].lastErr)
        /\ (pc[j] = "raised" /\ acq[j].logins > 0)
               => /\ exc[j] = acq[j].lastErr
                  /\ \/ ~ShouldRetryLoginError(acq[j].lastErr)
                     \/ acq[j].logins = BrowserUseMaxRetries

\* All attempts were used up on retryable errors, and a first attempt that
\* failed for another reason was raised at once.
C9_Witness ==
    /\ \E j \in JobIds :
          /\ pc[j] = "raised"
          /\ acq[j].logins = BrowserUseMaxRetries
          /\ ShouldRetryLoginError(exc[j])
    /\ \E j \in JobIds :
          /\ pc[j] = "raised"
          /\ acq[j].logins = 1
          /\ exc[j] = MsgNoCookies

\* C10: an attempt that ends with LOGIN_INVALID is followed by no other
\* attempt, creates no session row, and makes ensure_instagram_session fail.
C10_InvalidLoginIsFinal ==
    \A j \in JobIds :
        acq[j].invalidAt # 0
            => /\ acq[j].attempt = acq[j].invalidAt
               /\ acq[j].logins = acq[j].invalidAt
               /\ acq[j].created = 0
               /\ acq[j].result = NoState
               /\ pc[j] \in {"login_failed", "raised"}
               /\ pc[j] = "raised" => exc[j] = MsgLoginInvalid

\* An acquisition ended by LOGIN_INVALID on its second attempt.
C10_Witness ==
    \E j \in JobIds :
        /\ acq[j].invalidAt = 2
        /\ pc[j] = "raised"
        /\ exc[j] = MsgLoginInvalid

(***************************************************************************)
(* Persistence by concurrent jobs (claims C5, C6, C7).                     *)
(***************************************************************************)
\* Scraped worlds: two comments of one user on one post; two posts; the
\* second profile URL reported under the first username, with the posts in
\* the other order; a plain second profile; a post the extraction returned
\* without a URL before one that has it.
StoreData ==
    {Datum("ig/ana/", "", "v1", <<"p1">>,
           <<IData("p1", "u1", "comment", "t1"), IData("p1", "u1", "Comment", "t2")>>),
     Datum("ig/ana/", "Ana", "v1", <<"p1", "p2">>,
           <<IData("p1", "u1", "comment", "t1"), IData("p2", "u1", "like", "")>>),
     Datum("ig/bia/", "Ana", "v2", <<"p2", "p1">>,
           <<IData("p2", "u1", "like", ""), IData("p1", "u1", "comment", "t1")>>),
     Datum("ig/bia/", "", "v1", <<"p1">>,
           <<IData("p1", "u1", "comment", "t1")>>),
     Datum("ig/ana/", "Ana", "v1", <<NoUrl, "p1">>,
           <<IData("p1", "u2", "like", "")>>)}

\* Profile tables earlier runs can have left.
InitProfileTables ==
    {<<>>,
     <<ProfileRow("ana", "ig/ana/", "v1", 0), ProfileRow("bia", "ig/bia/", "v1", 0)>>}

\* Where a flow stands once its scraping is over and its persistence begins.
PersistEntry(flow) == IF flow = "recent_likes" THEN "rl_check" ELSE "sp_scrape"

\* Every job is inside a real run of the profile runner, its scraping done and
\* its persistence about to begin.
InitStore ==
    /\ storeUp = TRUE
    /\ sp = SpIdle
    /\ rl = RlIdle
    /\ call = CallIdle
    /\ clock = 0
    /\ cfg = [creds |-> TRUE, strict |-> FALSE]
    /\ sessions = <<>>
    /\ jobs = [j \in JobIds |-> MarkRunning(PendingJob, 1)]
    /\ runs = [j \in JobIds |-> 1]
    /\ \E f \in [JobIds -> Flows] :
          /\ req = [j \in JobIds |-> Request("profile", f[j], FALSE, NoOwner)]
          /\ pc = [j \in JobIds |-> PersistEntry(f[j])]
    /\ exc = [j \in JobIds |-> NoText]
    /\ res = [j \in JobIds |-> NoResult]
    /\ acq = [j \in JobIds |-> AcqIdle]
    /\ imp = [i \in ImportIds |-> [ImpIdle EXCEPT !.pc = "done"]]
    /\ profiles \in InitProfileTables
    /\ posts = {}
    /\ interactions = {}
    /\ data \in [JobIds -> StoreData]
    /\ sv = [j \in JobIds |-> SvIdle]

NextStore ==
    \E j \in JobIds :
        \/ ScrapeProfilePosts(j) \/ RecentLikes(j) \/ ScrapeSavePosts(j)
        \/ ScrapeReturn(j)
        \/ SaveStep(j) \/ SaveDeadlock(j)
        \/ RunnerFinalize(j) \/ RunnerHandler(j)

SpecStore == InitStore /\ [][NextStore]_vars

\* The interaction entries of job j that _save_posts_and_interactions stores:
\* those of a post of the list, with a known kind and a user URL.
Storable(j) ==
    {i \in DOMAIN data[j].inter :
        /\ data[j].inter[i].post_url \in Range(FlowPosts(j)) \ {NoUrl}
        /\ ParseType(data[j].inter[i].type) \in InteractionTypes
        /\ data[j].inter[i].user_url # NoUrl}
InputTriple(d) == <<d.post_url, d.user_url, ParseType(d.type)>>

\* The call of _save_posts_and_interactions of job j has ended.
SavePostsEnded(j) ==
    \/ sv[j].raised = "posts"
    \/ pc[j] \in {"flow_result", "finalize", "done"} /\ sv[j].raised = "none"

\* No other job has begun to persist.
Alone(j) == \A k \in JobIds \ {j} : pc[k] = PersistEntry(req[k].flow)

\* C5: after a call of _save_posts_and_interactions, also one whose input
\* carries the same (post URL, user URL, kind) more than once, the store holds
\* exactly one interaction row for each triple of the input.
C5_OneRowPerTriple ==
    \A j \in JobIds :
        (SavePostsEnded(j) /\ Alone(j))
            => \A i \in Storable(j) :
                   Cardinality({r \in interactions :
                                   Triple(r) = InputTriple(data[j].inter[i])}) = 1

\* The input of job j names no post and no triple twice.
NoDupInput(j) ==
    /\ \A a, b \in DOMAIN data[j].posts :
           data[j].posts[a] = data[j].posts[b] => a = b
    /\ \A a, b \in Storable(j) :
           InputTriple(data[j].inter[a]) = InputTriple(data[j].inter[b]) => a = b

\* The unique-constraint errors of a row another job stored first.
DuplicateOfOther(j) ==
    \/ jobs[j].error_message \in {MsgDupPost, MsgDupInteraction}
    \/ jobs[j].error_message = MsgDupProfile /\ sv[j].existing = 0

\* C6: when two jobs persist the same profile, post or interaction at the
\* same time, each having looked it up before the other committed, one row per
\* key is stored and neither job ends failed because of the duplicate.
C6_DuplicateDoesNotFailJob ==
    \A j \in JobIds :
        (pc[j] = "done" /\ NoDupInput(j) /\ jobs[j].status = "failed")
            => ~DuplicateOfOther(j)

\* C7: after any sequence of _save_profile calls no two profile rows share a
\* username, compared case-insensitively; and a call whose username matches a
\* row (whatever the URL, also a URL stored on another row) updates that row
\* and does not raise.
C7_SaveProfileUpdatesMatch ==
    /\ \A a, b \in DOMAIN profiles :
           Lower(profiles[a].username) = Lower(profiles[b].username) => a = b
    /\ \A j \in JobIds :
           Alone(j) => ~(sv[j].raised = "profile" /\ sv[j].existing # 0)

(***************************************************************************)
(* Recency of a post (instagram_scraper.py 398-613).                       *)
(*                                                                         *)
(* A text is the list of its whitespace-separated lower-case tokens; a     *)
(* token is a run of digits (num, -1 when it has none) followed by a run   *)
(* of letters (word).  An instant is a number of hours; a duration read    *)
(* from a relative text is a number of seconds.                            *)
(***************************************************************************)
\* None and a present value of an Optional.
None == <<>>
Some(x) == <<x>>

Tok(num, word) == [num |-> num, word |-> word]
Wd(word) == Tok(-1, word)
Nm(num) == Tok(num, "")

\* A posted_at value: None (null), or a text.  iso is what
\* datetime.fromisoformat reads from the text: Some(instant), or None when
\* it raises.
PostedAt(iso, text) == [null |-> FALSE, iso |-> iso, text |-> text]
NoDate == [null |-> TRUE, iso |-> None, text |-> <<>>]

\* The calendar of datetime for years without a 29th of February.
DaysInMonth == <<31, 28, 31, 30, 31, 30, 31, 31, 30, 31, 30, 31>>

RECURSIVE DaysBefore(_)
DaysBefore(month) ==
    IF month = 1 THEN 0 ELSE DaysBefore(month - 1) + DaysInMonth[month - 1]

DayOfYear(month, day) == DaysBefore(month) + day

\* datetime(year, month, day, tzinfo=utc) raises ValueError for a day the
\* month does not have.
ValidDate(month, day) == 1 <= day /\ day <= DaysInMonth[month]

Instant(year, month, day, hour) ==
    (year * 365 + DayOfYear(month, day) - 1) * 24 + hour

Moment(year, month, day, hour) ==
    [year |-> year, month |-> month, day |-> day, hour |-> hour]

InstantOf(now) == Instant(now.year, now.month, now.day, now.hour)

\* month_map of _parse_absolute_date (463-504).
MonthMap ==
    {<<"january", 1>>, <<"jan", 1>>, <<"february", 2>>, <<"feb", 2>>,
     <<"fevereiro", 2>>, <<"fev", 2>>, <<"march", 3>>, <<"mar", 3>>,
     <<"marco", 3>>, <<"abril", 4>>, <<"apr", 4>>, <<"april", 4>>,
     <<"maio", 5>>, <<"may", 5>>, <<"jun", 6>>, <<"june", 6>>,
     <<"junho", 6>>, <<"jul", 7>>, <<"july", 7>>, <<"julho", 7>>,
     <<"aug", 8>>, <<"august", 8>>, <<"ago", 8>>, <<"agosto", 8>>,
     <<"sep", 9>>, <<"sept", 9>>, <<"september", 9>>, <<"set", 9>>,
     <<"setembro", 9>>, <<"oct", 10>>, <<"october", 10>>, <<"out", 10>>,
     <<"outubro", 10>>, <<"nov", 11>>, <<"november", 11>>,
     <<"novembro", 11>>, <<"dec", 12>>, <<"december", 12>>, <<"dez", 12>>,
     <<"dezembro", 12>>}

\* month_map.get(token): the month a token names, 0 when it names none.
MonthOf(tok) ==
    IF tok.num = -1 /\ \E p \in MonthMap : p[1] = tok.word
    THEN (CHOOSE p \in MonthMap : p[1] = tok.word)[2]
    ELSE 0

\* The number written by the first k digits (at most) of the numeral of n.
RECURSIVE FirstDigits(_, _)
FirstDigits(n, k) == IF n < 10 ^ k THEN n ELSE FirstDigits(n \div 10, k)

\* _parse_day (510-517): re.match(r"(\d{1,2})", token), kept when in 1..31.
ParseDay(tok) ==
    IF tok.num < 0 THEN None
    ELSE LET day == FirstDigits(tok.num, 2)
         IN  IF 1 <= day /\ day <= 31 THEN Some(day) ELSE None

\* _parse_year (519-528): re.match(r"(\d{2,4})", token); a year below 100
\* is of this century.
ParseYear(tok) ==
    IF tok.num < 10 THEN None
    ELSE LET year == FirstDigits(tok.num, 4)
         IN  Some(IF year < 100 THEN year + 2000 ELSE year)

\* The loop of _parse_absolute_date over the tokens from idx on (530-569).
RECURSIVE AbsoluteFrom(_, _, _)
AbsoluteFrom(tokens, idx, now) ==
    IF idx > Len(tokens) THEN None
    ELSE
    LET month == MonthOf(tokens[idx])
        after == IF idx + 1 <= Len(tokens) THEN ParseDay(tokens[idx + 1]) ELSE None
        before == IF idx > 1 THEN ParseDay(tokens[idx - 1]) ELSE None
        day == IF after # None THEN after ELSE before
        year == IF after # None
                THEN (IF idx + 2 <= Len(tokens) THEN ParseYear(tokens[idx + 2]) ELSE None)
                ELSE IF before # None /\ idx + 1 <= Len(tokens)
                THEN ParseYear(tokens[idx + 1])
                ELSE None
    IN  IF month = 0 \/ day = None THEN AbsoluteFrom(tokens, idx + 1, now)
        ELSE IF ~ValidDate(month, day[1]) THEN None
        ELSE IF year # None THEN Some(Instant(year[1], month, day[1], 0))
        ELSE IF DayOfYear(month, day[1]) > DayOfYear(now.month, now.day)
        THEN Some(Instant(now.year - 1, month, day[1], 0))
        ELSE Some(Instant(now.year, month, day[1], 0))

\* _parse_absolute_date (445-569): the word "de" is dropped (460), then the
\* first month name with a day next to it decides.
ParseAbsoluteDate(text, now) ==
    AbsoluteFrom(SelectSeq(text, LAMBDA t : t # Wd("de")), 1, now)

\* The unit table of _relative_time_to_hours (423-431), in the order the
\* patterns are tried, with the length of each unit in seconds.
UnitPatterns ==
    << <<{"s", "seg", "segs", "segundo", "segundos", "sec", "secs", "second", "seconds"}, 1>>,
       <<{"m", "min", "mins", "minute", "minutes", "minuto", "minutos"}, 60>>,
       <<{"h", "hr", "hrs", "hour", "hours", "hora", "horas"}, 3600>>,
       <<{"d", "day", "days", "dia", "dias"}, 24 * 3600>>,
       <<{"w", "wk", "wks", "week", "weeks", "sem", "semana", "semanas"}, 24 * 7 * 3600>>,
       <<{"mo", "month", "months", "mes", "meses"}, 24 * 30 * 3600>>,
       <<{"y", "yr", "year", "years", "ano", "anos"}, 24 * 365 * 3600>> >>

\* The words of the texts, letter by letter.
Spelling ==
    {<<"-07-01", <<"-", "0", "7", "-", "0", "1">>>>,
     <<"-11-01t20:00:00z", <<"-", "1", "1", "-", "0", "1", "t", "2", "0", ":", "0", "0", ":", "0", "0", "z">>>>,
     <<"ago", <<"a", "g", "o">>>>, <<"agora", <<"a", "g", "o", "r", "a">>>>,
     <<"ano", <<"a", "n", "o">>>>, <<"anos", <<"a", "n", "o", "s">>>>,
     <<"d", <<"d">>>>, <<"day", <<"d", "a", "y">>>>,
     <<"days", <<"d", "a", "y", "s">>>>, <<"de", <<"d", "e">>>>,
     <<"dia", <<"d", "i", "a">>>>, <<"dias", <<"d", "i", "a", "s">>>>,
     <<"editada", <<"e", "d", "i", "t", "a", "d", "a">>>>,
     <<"editado", <<"e", "d", "i", "t", "a", "d", "o">>>>,
     <<"edited", <<"e", "d", "i", "t", "e", "d">>>>,
     <<"feb", <<"f", "e", "b">>>>,
     <<"garbage", <<"g", "a", "r", "b", "a", "g", "e">>>>, <<"h", <<"h">>>>,
     <<"ha", <<"h", "a">>>>, <<"hoje", <<"h", "o", "j", "e">>>>,
     <<"hora", <<"h", "o", "r", "a">>>>,
     <<"horas", <<"h", "o", "r", "a", "s">>>>,
     <<"hour", <<"h", "o", "u", "r">>>>,
     <<"hours", <<"h", "o", "u", "r", "s">>>>, <<"hr", <<"h", "r">>>>,
     <<"hrs", <<"h", "r", "s">>>>,
     <<"janeiro", <<"j", "a", "n", "e", "i", "r", "o">>>>,
     <<"january", <<"j", "a", "n", "u", "a", "r", "y">>>>,
     <<"just", <<"j", "u", "s", "t">>>>, <<"m", <<"m">>>>,
     <<"mar", <<"m", "a", "r">>>>, <<"mes", <<"m", "e", "s">>>>,
     <<"meses", <<"m", "e", "s", "e", "s">>>>,
     <<"mesmo", <<"m", "e", "s", "m", "o">>>>, <<"min", <<"m", "i", "n">>>>,
     <<"mins", <<"m", "i", "n", "s">>>>,
     <<"minute", <<"m", "i", "n", "u", "t", "e">>>>,
     <<"minutes", <<"m", "i", "n", "u", "t", "e", "s">>>>,
     <<"minuto", <<"m", "i", "n", "u", "t", "o">>>>,
     <<"minutos", <<"m", "i", "n", "u", "t", "o", "s">>>>,
     <<"mo", <<"m", "o">>>>, <<"month", <<"m", "o", "n", "t", "h">>>>,
     <<"months", <<"m", "o", "n", "t", "h", "s">>>>,
     <<"november", <<"n", "o", "v", "e", "m", "b", "e", "r">>>>,
     <<"novembro", <<"n", "o", "v", "e", "m", "b", "r", "o">>>>,
     <<"now", <<"n", "o", "w">>>>, <<"ontem", <<"o", "n", "t", "e", "m">>>>,
     <<"s", <<"s">>>>, <<"sec", <<"s", "e", "c">>>>,
     <<"second", <<"s", "e", "c", "o", "n", "d">>>>,
     <<"seconds", <<"s", "e", "c", "o", "n", "d", "s">>>>,
     <<"secs", <<"s", "e", "c", "s">>>>, <<"seg", <<"s", "e", "g">>>>,
     <<"segs", <<"s", "e", "g", "s">>>>,
     <<"segundo", <<"s", "e", "g", "u", "n", "d", "o">>>>,
     <<"segundos", <<"s", "e", "g", "u", "n", "d", "o", "s">>>>,
     <<"sem", <<"s", "e", "m">>>>,
     <<"semana", <<"s", "e", "m", "a", "n", "a">>>>,
     <<"semanas", <<"s", "e", "m", "a", "n", "a", "s">>>>,
     <<"today", <<"t", "o", "d", "a", "y">>>>, <<"w", <<"w">>>>,
     <<"week", <<"w", "e", "e", "k">>>>,
     <<"weeks", <<"w", "e", "e", "k", "s">>>>, <<"wk", <<"w", "k">>>>,
     <<"wks", <<"w", "k", "s">>>>, <<"y", <<"y">>>>,
     <<"year", <<"y", "e", "a", "r">>>>,
     <<"years", <<"y", "e", "a", "r", "s">>>>,
     <<"yesterday", <<"y", "e", "s", "t", "e", "r", "d", "a", "y">>>>,
     <<"yr", <<"y", "r">>>>}

\* The letters of a word (the word itself, as one symbol, when it is not
\* spelled above).
Letters(word) ==
    IF \E p \in Spelling : p[1] = word
    THEN (CHOOSE p \in Spelling : p[1] = word)[2]
    ELSE <<word>>

StartsWith(s, prefix) ==
    /\ Len(prefix) <= Len(s)
    /\ \A k \in 1..Len(prefix) : s[k] = prefix[k]

\* (?:unit|unit|...) without the \b that follows it in every pattern: an
\* alternative that the word only begins with is taken.
MatchesUnitPrefix(word, units) ==
    \E u \in units : StartsWith(Letters(word), Letters(u))

\* (?:unit|unit|...)\b at a word: some alternative is the beginning of the
\* word and a word boundary follows it, so the word ends there.
MatchesUnit(word, units) ==
    \E u \in units :
        /\ StartsWith(Letters(word), Letters(u))
        /\ Len(Letters(word)) = Len(Letters(u))

\* Where r"(\d+)\s*(?:unit)\b" matches: a number with the unit attached,
\* or a number followed by the unit.
UnitMatches(tokens, units) ==
    {i \in DOMAIN tokens :
        /\ tokens[i].num >= 0
        /\ \/ MatchesUnit(tokens[i].word, units)
           \/ /\ tokens[i].word = ""
              /\ i < Len(tokens)
              /\ tokens[i + 1].num = -1
              /\ MatchesUnit(tokens[i + 1].word, units)}

Min(S) == CHOOSE x \in S : \A y \in S : x <= y

RECURSIVE RelativeFrom(_, _)
RelativeFrom(tokens, k) ==
    IF k > Len(UnitPatterns) THEN None
    ELSE LET at == UnitMatches(tokens, UnitPatterns[k][1])
         IN  IF at = {} THEN RelativeFrom(tokens, k + 1)
             ELSE Some(tokens[Min(at)].num * UnitPatterns[k][2])

\* The words _relative_time_to_hours removes (411-413).
FillerWords == {"editado", "editada", "edited", "ago", "ha"}

\* _relative_time_to_hours (398-443), the result in seconds.
RelativeTimeToHours(text) ==
    LET cleaned == SelectSeq(text, LAMBDA t : ~(t.num = -1 /\ t.word \in FillerWords))
    IN  IF cleaned = <<>> THEN None
        ELSE IF cleaned \in {<<Wd("now")>>, <<Wd("just"), Wd("now")>>,
                             <<Wd("agora")>>, <<Wd("agora"), Wd("mesmo")>>}
        THEN Some(0)
        ELSE IF cleaned \in {<<Wd("today")>>, <<Wd("hoje")>>} THEN Some(0)
        ELSE IF cleaned \in {<<Wd("yesterday")>>, <<Wd("ontem")>>} THEN Some(24 * 3600)
        ELSE RelativeFrom(cleaned, 1)

\* A window that starts over after two days: the behaviour C30 excludes.
WindowWraps(a, b) == IF b > 2 THEN a ELSE b

\* max(1, int(recent_days)) (579).
Max(a, b) == IF a >= b THEN a ELSE b

\* _is_recent_post (571-613) at the moment `now`.
IsRecentPost(posted_at, recent_days, now) ==
    LET limit_hours == Max(1, recent_days) * 24
        text == posted_at.text
        absolute_dt == ParseAbsoluteDate(text, now)
        hours == RelativeTimeToHours(text)
    IN  IF posted_at.null THEN FALSE
        ELSE IF text = <<>> THEN FALSE
        ELSE IF text \in {<<Wd("now")>>, <<Wd("just"), Wd("now")>>,
                          <<Wd("agora")>>, <<Wd("agora"), Wd("mesmo")>>}
        THEN TRUE
        ELSE IF posted_at.iso # None
        THEN InstantOf(now) - posted_at.iso[1] <= limit_hours
        ELSE IF absolute_dt # None
        THEN InstantOf(now) - absolute_dt[1] <= limit_hours
        ELSE IF text \in {<<Wd("today")>>, <<Wd("hoje")>>} THEN TRUE
        ELSE IF text \in {<<Wd("yesterday")>>, <<Wd("ontem")>>} THEN limit_hours >= 48
        ELSE IF hours # None THEN hours[1] <= limit_hours * 3600
        ELSE FALSE

(***************************************************************************)
(* Posts: normalisation and merge (instagram_scraper.py 123-155, 257-304). *)
(***************************************************************************)
\* A URL by its parts: "https://instagram.com/p/a/" is
\* Url("https", "instagram.com", "p/a", TRUE); a URL written without scheme
\* and host ("/p/a") has both empty.  None and "" are the URL whose parts
\* are all empty.
Url(scheme, host, path, slash) ==
    [scheme |-> scheme, host |-> host, path |-> path, slash |-> slash]

NoPostUrl == Url("", "", "", FALSE)

\* Paths that hold "/p/" or "/reel/".
PostPaths == {"p/a", "p/b", "p/c"}

InstagramHost == "www.instagram.com"

\* The post_url of _normalize_post_item (124-132): a URL starting with "/p/"
\* gets scheme and host, a post URL gets its trailing slash.
NormalizeUrl(url) ==
    LET full == IF url.scheme = "" /\ url.host = "" /\ url.path \in PostPaths
                THEN Url("https", InstagramHost, url.path, url.slash)
                ELSE url
    IN  IF full.path \in PostPaths THEN [full EXCEPT !.slash = TRUE] ELSE full

\* str(caption).strip() on the captions of the model.
Strip(caption) == IF caption = " c2" THEN "c2" ELSE caption

\* A post as _normalize_post_item returns it (149-155): post_url (NoPostUrl
\* for None), caption ("" for None), the two counters (0 for None) and
\* posted_at.
PostItem(url, caption, likes, comments, posted_at) ==
    [post_url |-> url, caption |-> caption, like_count |-> likes,
     comment_count |-> comments, posted_at |-> posted_at]

\* _normalize_post_item (123-155) on an item whose counters are integers.
NormalizePostItem(item) ==
    PostItem(NormalizeUrl(item.post_url), Strip(item.caption),
             item.like_count, item.comment_count,
             IF item.posted_at.null \/ item.posted_at.text = <<>>
             THEN NoDate ELSE item.posted_at)

\* A key that tells apart URLs differing in their scheme or their slash.
RawUrlKey(url) == IF url = NoPostUrl THEN None ELSE Some(url)

\* _url_key (266-273): netloc and path of the URL without trailing slashes,
\* None for no URL and for an empty key.
UrlKey(url) ==
    IF url.host = "" /\ url.path = "" THEN None
    ELSE Some([host |-> url.host, path |-> url.path])

\* A merge in which the fallback value always wins.
TakeFallback(target, normalized, hole) == normalized

\* Lines 289-296: a field of the fallback fills the field of the target only
\* when the target has the hole value and the fallback has not.
FillHole(target, normalized, hole) ==
    IF target = hole /\ normalized # hole THEN normalized ELSE target

\* The counters are filled when the target is 0 and the fallback positive
\* (291-294).
FillCount(target, normalized) ==
    IF target = 0 /\ normalized > 0 THEN normalized ELSE target

FillFrom(target, normalized) ==
    PostItem(target.post_url,
             FillHole(target.caption, normalized.caption, ""),
             FillCount(target.like_count, normalized.like_count),
             FillCount(target.comment_count, normalized.comment_count),
             FillHole(target.posted_at, normalized.posted_at, NoDate))

\* by_url as the set of pairs <<key, position in merged>>.
HasKey(by_url, key) == \E e \in by_url : e[1] = key
AtKey(by_url, key) == (CHOOSE e \in by_url : e[1] = key)[2]

\* The loop over primary (275-282) from position i on.
RECURSIVE MergePrimary(_, _, _, _)
MergePrimary(merged, by_url, primary, i) ==
    IF i > Len(primary) THEN [merged |-> merged, by_url |-> by_url]
    ELSE LET normalized == NormalizePostItem(primary[i])
             url_key == UrlKey(normalized.post_url)
         IN  IF url_key # None /\ ~HasKey(by_url, url_key)
             THEN MergePrimary(Append(merged, normalized),
                               by_url \cup {<<url_key, Len(merged) + 1>>},
                               primary, i + 1)
             ELSE IF url_key = None
             THEN MergePrimary(Append(merged, normalized), by_url, primary, i + 1)
             ELSE MergePrimary(merged, by_url, primary, i + 1)

\* The loop over fallback (284-302) from position i on, with its break.
RECURSIVE MergeFallback(_, _, _, _, _)
MergeFallback(merged, by_url, fallback, i, max_posts) ==
    IF i > Len(fallback) THEN merged
    ELSE LET normalized == NormalizePostItem(fallback[i])
             url_key == UrlKey(normalized.post_url)
         IN  IF url_key # None /\ HasKey(by_url, url_key)
             THEN MergeFallback(
                      [merged EXCEPT ![AtKey(by_url, url_key)] = FillFrom(@, normalized)],
                      by_url, fallback, i + 1, max_posts)
             ELSE LET appended == Append(merged, normalized)
                      known == IF url_key # None
                               THEN by_url \cup {<<url_key, Len(merged) + 1>>}
                               ELSE by_url
                  IN  IF Len(appended) >= max_posts THEN appended
                      ELSE MergeFallback(appended, known, fallback, i + 1, max_posts)

\* A slice that keeps the whole list.
Whole(list, max_posts) == list

\* list[:max_posts] for max_posts >= 0.
Truncate(list, max_posts) ==
    SubSeq(list, 1, IF Len(list) < max_posts THEN Len(list) ELSE max_posts)

\* _merge_posts_data (257-304).
MergePostsData(primary, fallback, max_posts) ==
    LET first == MergePrimary(<<>>, {}, primary, 1)
    IN  Truncate(MergeFallback(first.merged, first.by_url, fallback, 1, max_posts),
                 max_posts)

(***************************************************************************)
(* The per-post loop of scrape_recent_posts_like_users                     *)
(* (instagram_scraper.py 989-1071).                                        *)
(***************************************************************************)
NoError == "none"

\* post_payload as first built (1004-1015).
PostPayload(post, is_recent) ==
    [post_url |-> post.post_url, caption |-> post.caption,
     like_count |-> post.like_count, comment_count |-> post.comment_count,
     posted_at |-> post.posted_at, is_recent |-> is_recent,
     likes_accessible |-> FALSE, like_users |-> <<>>, error |-> NoError]

\* A harvest that goes on whatever the classification says.
HarvestsEveryPost(is_recent) == FALSE

\* "if not is_recent" (1017): the post is emitted as it is and the loop
\* moves on.
SkipsHarvest(is_recent) == ~is_recent

\* What scrape_post_like_users returns (browser_use_agent.py 1217-1223,
\* 1248-1254, 1282-1287, 1294-1299).
LikeUsersResult(accessible, users, error) ==
    [likes_accessible |-> accessible, like_users |-> users, error |-> error]

\* The answer of the agent with the list; its answer when the list of likes
\* cannot be opened, with the error code the task text asks for (1164-1170)
\* and without one (1248-1254 pass on whatever the answer holds); an answer
\* that holds no JSON object (1217-1223); an exception of the last attempt
\* or one that is not retryable (1282-1287); the return after the loop
\* (1294-1299).
LikeUsersResults ==
    {LikeUsersResult(TRUE, <<"u1", "u2">>, NoError),
     LikeUsersResult(FALSE, <<>>, "likes_unavailable"),
     LikeUsersResult(FALSE, <<>>, NoError),
     LikeUsersResult(FALSE, <<>>, "parse_failed"),
     LikeUsersResult(FALSE, <<>>, "openai_api_key is required for browser use."),
     LikeUsersResult(FALSE, <<>>, "all_retries_failed")}

\* Lines 1028-1046: what the loop copies from like_users_result.
LikePayload(post_payload, like_users_result) ==
    [post_payload EXCEPT !.likes_accessible = like_users_result.likes_accessible,
                         !.error = like_users_result.error,
                         !.like_users = like_users_result.like_users]

\* The call of the loop over posts_data[:max_posts] at the moment `now`;
\* harvested and commented list the positions of the posts handed to
\* scrape_post_like_users and to _scrape_post_interactions, results what
\* scrape_post_like_users returned, call by call.
RlCall(posts_data, max_posts, recent_days, now) ==
    [pc |-> "loop", posts |-> posts_data, max_posts |-> max_posts,
     recent_days |-> recent_days, now |-> now, i |-> 1,
     payload |-> PostPayload(PostItem(NoPostUrl, "", 0, 0, NoDate), FALSE),
     extracted |-> <<>>, harvested |-> <<>>, results |-> <<>>,
     commented |-> <<>>]

RlLast == IF Len(rl.posts) < rl.max_posts THEN Len(rl.posts) ELSE rl.max_posts

\* One turn of the loop up to its first await (994-1020).
RlNextPost ==
    /\ rl.pc = "loop"
    /\ rl.i <= RlLast
    /\ LET post == rl.posts[rl.i]
           is_recent == IsRecentPost(post.posted_at, rl.recent_days, rl.now)
           post_payload == PostPayload(post, is_recent)
       IN  IF post.post_url = NoPostUrl
           THEN rl' = [rl EXCEPT !.i = @ + 1]
           ELSE IF SkipsHarvest(is_recent)
           THEN rl' = [rl EXCEPT
                    !.extracted = Append(@, [post_payload EXCEPT
                                                !.error = "post_older_than_window"]),
                    !.i = @ + 1]
           ELSE rl' = [rl EXCEPT !.payload = post_payload, !.pc = "like_users"]
    /\ UNCHANGED <<cfg, storeUp, jobVars, sessVars, imp, storeVars, sp, call>>

\* scrape_post_like_users and what the loop takes from its result
\* (1022-1048).
RlLikeUsers ==
    /\ rl.pc = "like_users"
    /\ \E r \in LikeUsersResults :
           rl' = [rl EXCEPT
               !.harvested = Append(@, rl.i),
               !.results = Append(@, r),
               !.payload = LikePayload(@, r),
               !.pc = "comments"]
    /\ UNCHANGED <<cfg, storeUp, jobVars, sessVars, imp, storeVars, sp, call>>

\* The preparation of scrape_post_like_users (browser_use_agent.py 1115-1123)
\* is outside its try: when the temporary file of the storage state cannot
\* be written the exception leaves the loop and the flow
\* (instagram_scraper.py 1106-1108).
RlLikeUsersSetupFails ==
    /\ rl.pc = "like_users"
    /\ rl' = [rl EXCEPT !.harvested = Append(@, rl.i), !.pc = "raised"]
    /\ UNCHANGED <<cfg, storeUp, jobVars, sessVars, imp, storeVars, sp, call>>

\* _scrape_post_interactions for the comments, whose failure is only logged
\* (1049-1071).
RlComments ==
    /\ rl.pc = "comments"
    /\ rl' = [rl EXCEPT
           !.commented = IF rl.payload.is_recent THEN Append(@, rl.i) ELSE @,
           !.extracted = Append(@, rl.payload),
           !.i = @ + 1,
           !.pc = "loop"]
    /\ UNCHANGED <<cfg, storeUp, jobVars, sessVars, imp, storeVars, sp, call>>

\* The loop is over (1073).
RlFinish ==
    /\ rl.pc = "loop"
    /\ rl.i > RlLast
    /\ rl' = [rl EXCEPT !.pc = "done"]
    /\ UNCHANGED <<cfg, storeUp, jobVars, sessVars, imp, storeVars, sp, call>>

(***************************************************************************)
(* The per-post loop on bounded feeds.                                     *)
(***************************************************************************)
\* recent_days ranges over 1..MaxWindow (schemas.py 246-249: at least 1).
MaxWindow == 3
\* max_posts ranges over 1..MaxFeed (schemas.py 245: at least 1).
MaxFeed == 3

Text(tokens) == PostedAt(None, tokens)

\* posted_at values: null, empty, fixed words, relative durations, calendar
\* dates, ISO-8601 datetimes and a text that is none of these.
Dates ==
    {NoDate, Text(<<>>), Text(<<Wd("garbage")>>),
     Text(<<Wd("now")>>), Text(<<Wd("just"), Wd("now")>>),
     Text(<<Wd("today")>>), Text(<<Wd("yesterday")>>), Text(<<Wd("ontem")>>),
     Text(<<Tok(5, "h")>>), Text(<<Nm(5), Wd("h"), Wd("ago")>>),
     Text(<<Wd("edited"), Tok(2, "h")>>),
     Text(<<Nm(44), Wd("minutes"), Wd("ago")>>),
     Text(<<Tok(30, "m"), Wd("ago")>>),
     Text(<<Tok(3, "d")>>), Text(<<Tok(3, "d"), Wd("ago")>>),
     Text(<<Tok(1, "w")>>), Text(<<Wd("ha"), Nm(2), Wd("dias")>>),
     Text(<<Wd("november"), Nm(1)>>),
     Text(<<Nm(1), Wd("de"), Wd("novembro")>>),
     Text(<<Nm(5), Wd("ago")>>), Text(<<Wd("feb"), Nm(30)>>),
     Text(<<Nm(12), Wd("mar"), Nm(2025)>>),
     PostedAt(Some(Instant(2026, 11, 1, 20)), <<Tok(2026, "-11-01t20:00:00z")>>),
     PostedAt(Some(Instant(2026, 7, 1, 0)), <<Tok(2026, "-07-01")>>)}
    \cup {Text(<<Tok(n, "h"), Wd("ago")>>) : n \in {5, 26, 47, 49}}
    \cup {Text(<<Nm(n), Wd("days"), Wd("ago")>>) : n \in 1..(MaxWindow + 1)}

PairDates ==
    {NoDate, Text(<<Wd("yesterday")>>), Text(<<Tok(5, "h"), Wd("ago")>>),
     Text(<<Nm(44), Wd("minutes"), Wd("ago")>>),
     Text(<<Nm(4), Wd("days"), Wd("ago")>>)}

Nows == {Moment(2026, 11, 2, 1), Moment(2026, 8, 5, 10), Moment(2026, 1, 1, 0)}

\* The URL of post `code` as the agent is told to write it.
PostUrl(code) == Url("https", "instagram.com", code, TRUE)

Feeds ==
    {<<PostItem(PostUrl("p/a"), "c1", 1, 0, d)>> : d \in Dates}
    \cup {<<PostItem(PostUrl("p/a"), "c1", 1, 0, d[1]),
            PostItem(PostUrl("p/b"), "", 0, 2, d[2])>> :
             d \in PairDates \X PairDates}
    \cup {<<PostItem(NoPostUrl, "", 0, 0, d), PostItem(PostUrl("p/b"), "c2", 0, 0, d),
            PostItem(PostUrl("p/c"), "", 0, 0, d)>> : d \in PairDates}

\* No job is dispatched and the store is empty.
InitQuiet ==
    /\ InitCommon
    /\ cfg = [creds |-> TRUE, strict |-> FALSE]
    /\ sessions = <<>>
    /\ req = [j \in JobIds |-> Request("profile", "recent_likes", FALSE, NoOwner)]
    /\ data = [j \in JobIds |-> NoData]

\* The posts are there and the loop is about to start.
InitRecent ==
    /\ InitQuiet
    /\ sp = SpIdle
    /\ call = CallIdle
    /\ \E feed \in Feeds, m \in 1..MaxFeed, w \in 1..MaxWindow, now \in Nows :
           rl = RlCall(feed, m, w, now)

NextRecent ==
    \/ RlNextPost \/ RlLikeUsers \/ RlLikeUsersSetupFails \/ RlComments
    \/ RlFinish

SpecRecent == InitRecent /\ [][NextRecent]_vars

(***************************************************************************)
(* The tiers of _scrape_posts (instagram_scraper.py 1111-1196) and the     *)
(* agent loop of scrape_profile_posts (browser_use_agent.py 898-1096).     *)
(***************************************************************************)
\* The markers of the except branch of scrape_profile_posts (1062-1071).
PostsRetryMarkers ==
    { <<"http", "500">>, <<"connection">>, <<"timeout">>, <<"websocket">>,
      <<"failed", "to", "establish">>, <<"protocol", "error">>,
      <<"reserved", "bits">>, <<"client", "is", "stopping">> }

\* is_retryable (1062-1071).
IsRetryable(msg) == \E m \in PostsRetryMarkers : IsInfix(m, msg)

\* The markers of _contains_protocol_error (497-503).
ProtocolMarkers ==
    { <<"protocol", "error">>, <<"reserved", "bits", "must", "be", "0">>,
      <<"connectionclosederror">>, <<"client", "is", "stopping">>,
      <<"sent", "1002">> }

\* The marker list cut down to the words "protocol error".
ContainsProtocolWordsOnly(text) == IsInfix(<<"protocol", "error">>, text)

\* _contains_protocol_error (493-504).
ContainsProtocolError(text) == \E m \in ProtocolMarkers : IsInfix(m, text)

MsgApiKey == <<"openai_api_key", "is", "required", "for", "browser", "use">>
MsgHttp500 == <<"http", "500", "from", "browserless">>

\* A JSON object found in a text: whether it has the key "posts", the list
\* under it and its "error" (NoError when it has none).
JsonObject(has_posts, posts_list, error) ==
    [has_posts |-> has_posts, posts |-> posts_list, error |-> error]

\* The final result of an agent run: history.is_successful(), the words of
\* the text and the JSON objects that can be decoded from it, in order.
FinalResult(successful, text, objects) ==
    [successful |-> successful, text |-> text, objects |-> objects]

NoFinal == FinalResult(FALSE, <<>>, <<>>)

\* _extract_json_object_with_key(text, "posts") (506-519): the first object
\* holding the key, None when there is none.
ExtractJsonObjectWithKey(final) ==
    LET found == SelectSeq(final.objects, LAMBDA o : o.has_posts)
    IN  IF found = <<>> THEN None ELSE Some(found[1])

\* _recover_posts_from_raw_result (380-396): the posts of the first object
\* that has a list under "posts", [] when there is none.
RecoverPostsFromRawResult(raw) ==
    LET found == SelectSeq(raw.objects, LAMBDA o : o.has_posts)
    IN  IF found = <<>> THEN <<>> ELSE found[1].posts

\* What scrape_profile_posts returns: posts, error and raw_result.
AgentResult(posts_list, error, raw) ==
    [posts |-> posts_list, error |-> error, raw |-> raw]

\* One entry of the trail of a call: the tier that ran, the attempt of the
\* agent, the exception the attempt raised (NoText: none) and whether the
\* loop went on to another attempt.
TrailEntry(tier, attempt, raised, retried) ==
    [tier |-> tier, attempt |-> attempt, raised |-> raised, retried |-> retried]

\* The call _scrape_posts(profile_url, max_posts); path tells which return
\* statement ended it.
SpCall(max_posts) ==
    [pc |-> "agent", max_posts |-> max_posts, attempt |-> 1, trail |-> <<>>,
     result |-> AgentResult(<<>>, NoError, NoFinal),
     primary |-> <<>>, fallback |-> <<>>, path |-> "none", out |-> <<>>]

SpFrame == UNCHANGED <<cfg, storeUp, jobVars, sessVars, imp, storeVars, rl, call>>

\* An attempt of the loop is retried in every case.
AlwaysRetried(retryable, attempt) == TRUE

\* "... and attempt < max_retries" (1015, 1028, 1043, 1073).
Retried(retryable, attempt) == retryable /\ attempt < BrowserUseMaxRetries

SpAgentNext(entry) ==
    sp' = [sp EXCEPT !.attempt = @ + 1, !.trail = Append(@, entry)]

SpAgentReturn(entry, result) ==
    sp' = [sp EXCEPT !.trail = Append(@, entry), !.result = result,
                     !.pc = "triage"]

\* The preparation of scrape_profile_posts (915-930), outside its try, fails:
\* the exception reaches the except branch of _scrape_posts (1184).
SpAgentSetupFails ==
    /\ sp.pc = "agent"
    /\ sp.attempt = 1
    /\ sp' = [sp EXCEPT !.pc = "fallback_exc"]
    /\ SpFrame

\* An attempt raises inside the try of the loop (936-1007, 1060-1084).
SpAgentRaises ==
    /\ sp.pc = "agent"
    /\ sp.attempt <= BrowserUseMaxRetries
    /\ \E msg \in {MsgWebsocket, MsgHttp500, MsgTimeout, MsgApiKey} :
           LET retried == Retried(IsRetryable(msg), sp.attempt)
               entry == TrailEntry("agent", sp.attempt, msg, retried)
           IN  IF retried THEN SpAgentNext(entry)
               ELSE SpAgentReturn(entry, AgentResult(<<>>, "exception", NoFinal))
    /\ SpFrame

\* An attempt whose agent.run() ends with `final` (1007-1058).
SpAgentFinishes(final) ==
    LET parsed == ExtractJsonObjectWithKey(final)
        protocol == ContainsProtocolError(final.text)
        retryable == \/ ~final.successful /\ protocol
                     \/ parsed # None /\ parsed[1].error = "login_required"
                     \/ parsed = None /\ protocol
        retried == Retried(retryable, sp.attempt)
        entry == TrailEntry("agent", sp.attempt, NoText, retried)
    IN  IF retried THEN SpAgentNext(entry)
        ELSE IF parsed # None
        THEN SpAgentReturn(entry, AgentResult(parsed[1].posts, parsed[1].error, NoFinal))
        ELSE SpAgentReturn(entry, AgentResult(<<>>, "parse_failed", final))

\* A list that is never too short.
NeverShort(primary, max_posts) == FALSE

\* "if len(normalized_primary) < max_posts" (1162).
NeedsFallback(primary, max_posts) == Len(primary) < max_posts

NormalizeAll(list) == [i \in DOMAIN list |-> NormalizePostItem(list[i])]

\* _scrape_posts from the result of the agent to the choice of the tier
\* (1143-1162, 1178-1182).
SpTriage ==
    /\ sp.pc = "triage"
    /\ LET recovered == RecoverPostsFromRawResult(sp.result.raw)
           posts_data == IF sp.result.error = "parse_failed" /\ recovered # <<>>
                         THEN recovered ELSE sp.result.posts
           normalized_primary == NormalizeAll(posts_data)
       IN  IF NeedsFallback(normalized_primary, sp.max_posts)
           THEN sp' = [sp EXCEPT !.primary = normalized_primary, !.pc = "fallback"]
           ELSE sp' = [sp EXCEPT !.primary = normalized_primary,
                                 !.out = Truncate(normalized_primary, sp.max_posts),
                                 !.path = "agent", !.pc = "done"]
    /\ SpFrame

\* _fallback_scrape_posts_via_browserless returns the normalised posts it
\* recovered, at most max_posts of them, [] when it failed (306-378).
FallbackPosts(found, max_posts) == Truncate(NormalizeAll(found), max_posts)

\* The fallback tier and the merge (1168-1182).
SpFallback(found) ==
    /\ sp.pc = "fallback"
    /\ LET fallback_posts == FallbackPosts(found, sp.max_posts)
       IN  sp' = [sp EXCEPT
               !.fallback = fallback_posts,
               !.trail = Append(@, TrailEntry("fallback", 0, NoText, FALSE)),
               !.out = Truncate(MergePostsData(sp.primary, fallback_posts, sp.max_posts),
                                sp.max_posts),
               !.path = "merged", !.pc = "done"]
    /\ SpFrame

\* The fallback tier after an exception (1184-1196).
SpFallbackAfterException(found) ==
    /\ sp.pc = "fallback_exc"
    /\ LET fallback_posts == FallbackPosts(found, sp.max_posts)
       IN  sp' = [sp EXCEPT
               !.fallback = fallback_posts,
               !.trail = Append(@, TrailEntry("fallback", 0, NoText, FALSE)),
               !.out = Truncate(fallback_posts, sp.max_posts),
               !.path = "exception", !.pc = "done"]
    /\ SpFrame

(***************************************************************************)
(* _scrape_posts on bounded agent outputs and fallback pages.              *)
(***************************************************************************)
\* The lists the agent and the fallback return have at most MaxItems posts.
MaxItems == 2

\* Posts the agent can report: two writings of post a (the second without
\* slash and with holes), post b over http, a post without URL.
PrimaryItems ==
    {PostItem(Url("https", "instagram.com", "p/a", TRUE), "c1", 5, 0,
              Text(<<Wd("yesterday")>>)),
     PostItem(Url("https", "instagram.com", "p/a", FALSE), "", 0, 3, NoDate),
     PostItem(Url("http", "instagram.com", "p/b", TRUE), " c2", 0, 0, Text(<<>>)),
     PostItem(NoPostUrl, "c3", 1, 1, NoDate)}

\* Posts the fallback can recover: posts a and b written with another scheme
\* or slash, post c under the host of the profile page, once as a path.
FallbackItems ==
    {PostItem(Url("http", "instagram.com", "p/a", FALSE), "f1", 7, 2,
              Text(<<Tok(5, "h"), Wd("ago")>>)),
     PostItem(Url("https", "instagram.com", "p/b", TRUE), "", 9, 4,
              Text(<<Wd("today")>>)),
     PostItem(Url("https", InstagramHost, "p/c", TRUE), "f3", 0, 0, NoDate),
     PostItem(Url("", "", "p/c", FALSE), "f4", 2, 0, NoDate)}

ListsOf(S) == UNION {[1..k -> S] : k \in 0..MaxItems}

\* What agent.run() can end with.
FinalResults ==
    {FinalResult(TRUE, <<>>, <<JsonObject(TRUE, l, NoError)>>) : l \in ListsOf(PrimaryItems)}
    \cup {FinalResult(TRUE, <<>>, <<JsonObject(TRUE, <<>>, "private_profile")>>),
          FinalResult(TRUE, <<>>, <<JsonObject(TRUE, <<>>, "login_required")>>),
          FinalResult(FALSE, <<"protocol", "error">>, <<>>),
          FinalResult(TRUE, <<"sent", "1002">>, <<>>),
          FinalResult(TRUE, <<"no", "posts", "found">>, <<>>),
          FinalResult(TRUE, <<"done">>, <<JsonObject(FALSE, <<>>, NoError)>>)}

SpAgentRuns ==
    /\ sp.pc = "agent"
    /\ sp.attempt <= BrowserUseMaxRetries
    /\ \E final \in FinalResults : SpAgentFinishes(final)
    /\ SpFrame

InitPosts ==
    /\ InitQuiet
    /\ rl = RlIdle
    /\ call = CallIdle
    /\ \E m \in 1..MaxFeed : sp = SpCall(m)

NextPosts ==
    \/ SpAgentSetupFails
    \/ SpAgentRaises
    \/ SpAgentRuns
    \/ SpTriage
    \/ \E found \in ListsOf(FallbackItems) : SpFallback(found)
    \/ \E found \in ListsOf(FallbackItems) : SpFallbackAfterException(found)

SpecPosts == InitPosts /\ [][NextPosts]_vars

(***************************************************************************)
(* Tiers and merge (claims C13 to C17).                                    *)
(***************************************************************************)
SpAgentRan == {k \in DOMAIN sp.trail : sp.trail[k].tier = "agent"}
SpFallbackRan == \E k \in DOMAIN sp.trail : sp.trail[k].tier = "fallback"

\* C13: a call of _scrape_posts runs the fallback tier exactly when the agent
\* tier, recovery from the raw output included, yielded fewer than max_posts
\* posts; an agent output that cannot be parsed ends in the fallback tier and
\* the call returns.
C13_FallbackIffAgentShort ==
    /\ sp.pc = "done" => (SpFallbackRan <=> Len(sp.primary) < sp.max_posts)
    /\ sp.pc \in {"triage", "fallback", "fallback_exc"} => ~SpFallbackRan
    /\ (sp.pc = "done" /\ sp.result.error = "parse_failed")
           => SpFallbackRan /\ sp.path = "merged"
    /\ sp.result.error = "parse_failed"
           => RecoverPostsFromRawResult(sp.result.raw) = <<>>

\* A call that ended in the fallback tier after an agent output without a
\* JSON object holding "posts".
C13_Witness ==
    /\ sp.pc = "done"
    /\ sp.result.error = "parse_failed"
    /\ sp.result.raw.objects # <<>>
    /\ SpFallbackRan
    /\ sp.out # <<>>

\* C14: an agent exception with a retryable signature is followed by the next
\* agent attempt while attempts remain; any other agent exception is followed
\* by no agent attempt and the call goes on to the fallback tier, which runs
\* after the last attempt only; a call makes at most browser_use_max_retries
\* attempts.
C14_AgentRetriesThenFallback ==
    /\ Cardinality(SpAgentRan) <= BrowserUseMaxRetries
    /\ \A k \in DOMAIN sp.trail : sp.trail[k].tier = "fallback" => k = Len(sp.trail)
    /\ \A k \in SpAgentRan :
           sp.trail[k].raised # NoText =>
               IF IsRetryable(sp.trail[k].raised)
                  /\ sp.trail[k].attempt < BrowserUseMaxRetries
               THEN IF k = Len(sp.trail) THEN sp.pc = "agent"
                    ELSE /\ sp.trail[k + 1].tier = "agent"
                         /\ sp.trail[k + 1].attempt = sp.trail[k].attempt + 1
               ELSE /\ \A m \in SpAgentRan : m <= k
                    /\ sp.pc \in {"triage", "fallback", "done"}
                    /\ sp.pc = "done" => SpFallbackRan

\* A call whose first attempt raised a retryable exception, whose second
\* attempt raised one that is not, and which then ran the fallback tier.
C14_Witness ==
    /\ sp.pc = "done"
    /\ Len(sp.trail) = 3
    /\ IsRetryable(sp.trail[1].raised)
    /\ sp.trail[2].raised = MsgApiKey
    /\ sp.trail[3].tier = "fallback"

\* Two URLs with the same host and path, whatever their scheme and slash.
SameNormalizedUrl(u, v) ==
    u # NoPostUrl /\ v # NoPostUrl /\ u.host = v.host /\ u.path = v.path

\* C15: the list _merge_posts_data returns holds no two entries with the same
\* normalized URL.
C15_MergeHasNoDuplicateUrl ==
    sp.path = "merged" =>
        \A i, j \in DOMAIN sp.out :
            i < j => ~SameNormalizedUrl(sp.out[i].post_url, sp.out[j].post_url)

\* A merge whose primary list repeats a URL and whose fallback list holds the
\* same post under another scheme.
C15_Witness ==
    /\ sp.path = "merged"
    /\ sp.out # <<>>
    /\ \E i, j \in DOMAIN sp.primary :
           i < j /\ SameNormalizedUrl(sp.primary[i].post_url, sp.primary[j].post_url)
    /\ \E i \in DOMAIN sp.primary, j \in DOMAIN sp.fallback :
           /\ SameNormalizedUrl(sp.primary[i].post_url, sp.fallback[j].post_url)
           /\ sp.primary[i].post_url.scheme # sp.fallback[j].post_url.scheme

\* The first record of `list` with the URL of entry e.
FirstWithUrl(list, e) ==
    list[CHOOSE i \in DOMAIN list :
            /\ SameNormalizedUrl(list[i].post_url, e.post_url)
            /\ \A j \in 1..(i - 1) : ~SameNormalizedUrl(list[j].post_url, e.post_url)]

InList(list, e) == \E i \in DOMAIN list : SameNormalizedUrl(list[i].post_url, e.post_url)

\* The values of field f in the records of the fallback with the URL of e.
FallbackValues(e, f) ==
    {sp.fallback[i][f] : i \in {k \in DOMAIN sp.fallback :
                                  SameNormalizedUrl(sp.fallback[k].post_url, e.post_url)}}

MergedFields == {"caption", "like_count", "comment_count", "posted_at"}

IsHole(f, value) ==
    CASE f = "caption" -> value = ""
      [] f = "posted_at" -> value = NoDate
      [] OTHER -> value = 0

\* C16: in the merged list, an entry whose URL is in primary keeps every
\* field that is present in the primary record; a field differs from the
\* primary record only where that record had a hole, and then holds a value
\* of the fallback.
C16_MergeOnlyFillsHoles ==
    sp.path = "merged" =>
        \A k \in DOMAIN sp.out :
            InList(sp.primary, sp.out[k]) =>
                \A f \in MergedFields :
                    LET mine == FirstWithUrl(sp.primary, sp.out[k])[f]
                    IN  /\ ~IsHole(f, mine) => sp.out[k][f] = mine
                        /\ sp.out[k][f] # mine
                               => IsHole(f, mine) /\ sp.out[k][f] \in FallbackValues(sp.out[k], f)

\* A merged entry that kept the caption of primary against another caption
\* of the fallback and took the comment count primary lacked.
C16_Witness ==
    /\ sp.path = "merged"
    /\ \E k \in DOMAIN sp.out :
           /\ InList(sp.primary, sp.out[k])
           /\ InList(sp.fallback, sp.out[k])
           /\ FirstWithUrl(sp.primary, sp.out[k]).caption # ""
           /\ FirstWithUrl(sp.fallback, sp.out[k]).caption
                  \notin {"", FirstWithUrl(sp.primary, sp.out[k]).caption}
           /\ FirstWithUrl(sp.primary, sp.out[k]).comment_count = 0
           /\ sp.out[k].comment_count > 0

\* The posts of `list` at the positions of `keep`, in their order.
RECURSIVE Pick(_, _, _)
Pick(list, keep, i) ==
    IF i > Len(list) THEN <<>>
    ELSE (IF i \in keep THEN <<list[i]>> ELSE <<>>) \o Pick(list, keep, i + 1)

\* The first occurrence of every URL of primary, and the posts without URL.
DistinctPrimary ==
    Pick(sp.primary,
         {i \in DOMAIN sp.primary :
             \A j \in 1..(i - 1) :
                 ~SameNormalizedUrl(sp.primary[j].post_url, sp.primary[i].post_url)},
         1)

\* The posts of the fallback whose URL is not in primary, once each.
FallbackOnly ==
    Pick(sp.fallback,
         {i \in DOMAIN sp.fallback :
             /\ ~InList(sp.primary, sp.fallback[i])
             /\ \A j \in 1..(i - 1) :
                    ~SameNormalizedUrl(sp.fallback[j].post_url, sp.fallback[i].post_url)},
         1)

UrlsOf(list) == [i \in DOMAIN list |-> list[i].post_url]

\* C17: _scrape_posts returns at most max_posts posts on every path, and a
\* merged list is the first max_posts of the distinct primary entries in their
\* order followed by the fallback-only entries in theirs.
C17_MergeKeepsOrderAndLimit ==
    /\ Len(sp.out) <= sp.max_posts
    /\ sp.path = "merged" =>
           LET expected == UrlsOf(DistinctPrimary \o FallbackOnly)
           IN  /\ Len(sp.out) = (IF Len(expected) < sp.max_posts
                                 THEN Len(expected) ELSE sp.max_posts)
               /\ \A k \in DOMAIN sp.out : sp.out[k].post_url = expected[k]

\* A merged list cut at max_posts that holds a primary entry followed by a
\* fallback-only entry.
C17_Witness ==
    /\ sp.path = "merged"
    /\ Len(sp.out) = sp.max_posts
    /\ Len(DistinctPrimary \o FallbackOnly) > sp.max_posts
    /\ DistinctPrimary # <<>>
    /\ Len(DistinctPrimary) < sp.max_posts

(***************************************************************************)
(* Recency window (claims C11, C12).                                       *)
(***************************************************************************)
\* How the running call classifies a posted_at value.
RlRecent(posted_at) == IsRecentPost(posted_at, rl.recent_days, rl.now)

\* The positions of the loop that hold a post with a URL.
RlWithUrl == {i \in 1..RlLast : rl.posts[i].post_url # NoPostUrl}

\* C11: scrape_post_like_users and the collection of comments are invoked
\* only for posts classified recent, and every post classified not recent is
\* emitted with error "post_older_than_window", is_recent false,
\* likes_accessible false and no like users.
C11_NonRecentPostsAreNotHarvested ==
    /\ \A k \in DOMAIN rl.harvested : RlRecent(rl.posts[rl.harvested[k]].posted_at)
    /\ \A k \in DOMAIN rl.commented : RlRecent(rl.posts[rl.commented[k]].posted_at)
    /\ \A k \in DOMAIN rl.extracted :
           ~RlRecent(rl.extracted[k].posted_at)
               => /\ rl.extracted[k].error = "post_older_than_window"
                  /\ ~rl.extracted[k].is_recent
                  /\ ~rl.extracted[k].likes_accessible
                  /\ rl.extracted[k].like_users = <<>>
    /\ rl.pc = "done" => Len(rl.extracted) = Cardinality(RlWithUrl)

\* A finished loop that emitted a post older than the window and harvested
\* another one.
C11_Witness ==
    /\ rl.pc = "done"
    /\ rl.harvested # <<>>
    /\ \E k \in DOMAIN rl.extracted : ~RlRecent(rl.extracted[k].posted_at)

\* The age in seconds the posted_at value resolves to: by ISO-8601 parse,
\* else by absolute calendar text, else by relative-duration text (None when
\* none of them reads it).
ResolvedAge(posted_at, now) ==
    IF posted_at.null THEN None
    ELSE IF posted_at.iso # None
    THEN Some((InstantOf(now) - posted_at.iso[1]) * 3600)
    ELSE IF ParseAbsoluteDate(posted_at.text, now) # None
    THEN Some((InstantOf(now) - ParseAbsoluteDate(posted_at.text, now)[1]) * 3600)
    ELSE RelativeTimeToHours(posted_at.text)

WindowSeconds == rl.recent_days * 24 * 3600

\* C12: a post is classified recent exactly when its resolved age is at most
\* recent_days * 24 hours ("yesterday" being 24 hours), never for a null,
\* empty or unparseable date; "N days ago" with N above the window is not
\* recent, and "M minutes ago" and "Nh ago" within the window are recent.
C12_RecentIffWithinWindow ==
    \A k \in DOMAIN rl.extracted :
        LET e == rl.extracted[k]
            t == e.posted_at.text
            age == ResolvedAge(e.posted_at, rl.now)
        IN  /\ e.is_recent <=> (age # None /\ age[1] <= WindowSeconds)
            /\ (e.posted_at.null \/ t = <<>>) => ~e.is_recent
            /\ t \in {<<Wd("yesterday")>>, <<Wd("ontem")>>}
                   => (e.is_recent <=> 24 * 3600 <= WindowSeconds)
            /\ \A n \in 0..99 :
                   /\ (t = <<Nm(n), Wd("days"), Wd("ago")>> /\ n > rl.recent_days)
                          => ~e.is_recent
                   /\ (t = <<Nm(n), Wd("minutes"), Wd("ago")>> /\ n * 60 <= WindowSeconds)
                          => e.is_recent
                   /\ (t = <<Tok(n, "h"), Wd("ago")>> /\ n * 3600 <= WindowSeconds)
                          => e.is_recent

(***************************************************************************)
(* Replacement and reuse of the stored session (claims C18, C19, C20).     *)
(***************************************************************************)
\* The acquisition of job j found a stored session and is past its
\* validation: it is replacing it (login loop), or the replacement failed.
Replacing(j) ==
    /\ acq[j].existing # 0
    /\ pc[j] \in {"login", "login_failed", "login_update", "login_commit", "raised"}

\* C18: while an invalid stored session is being replaced through a fresh
\* login, and after the replacement ended, the committed table never leaves
\* the principal of the replaced session without an active session: the
\* deactivation of the old row and the insertion of the new one are committed
\* together. (Stated for tables no import has written to.)
C18_ReplacementLeavesNoGap ==
    (\A i \in ImportIds : imp[i].pc # "done") =>
        \A j \in JobIds :
            Replacing(j) => ActiveOf(sessions[acq[j].existing].owner) # {}

\* The principal an acquisition is made for: the one the request names, else
\* the configured account (settings.instagram_username).
RequestedPrincipal(j) ==
    IF req[j].session # NoOwner THEN req[j].session ELSE ConfiguredUser

\* Row i belongs to a principal other than p.
OwnedByOther(i, p) == sessions[i].owner \in Principals \ {p}

\* The acquisition of job j returned the bundle of a stored row (reuse or
\* reconnect), not one it obtained by a login.
ReturnedStored(j) ==
    /\ acq[j].done
    /\ acq[j].result # NoState
    /\ acq[j].existing # 0
    /\ acq[j].created = 0

\* C19: an acquisition made for principal A never returns the bundle of a row
\* owned by another principal B, and its deactivate-all statement never
\* deactivates a row owned by B.
C19_AcquisitionStaysWithinPrincipal ==
    \A j \in JobIds :
        /\ ReturnedStored(j) => ~OwnedByOther(acq[j].existing, RequestedPrincipal(j))
        /\ \A i \in acq[j].deact : ~OwnedByOther(i, RequestedPrincipal(j))

\* The step by which the acquisition of job j returns the stored session it
\* found valid (724-727 with strict validation off, 730-733 with it on).
ReuseStep(j) ==
    /\ pc[j] \in {"ens_entry", "ens_validate"}
    /\ pc'[j] = acq[j].ret
    /\ acq'[j].result # NoState

\* Row i after the step differs from before in its timestamps at most
\* (last_used_at, and updated_at which the mapping refreshes on every UPDATE).
OnlyTouched(i) ==
    /\ sessions'[i].owner = sessions[i].owner
    /\ sessions'[i].st = sessions[i].st
    /\ sessions'[i].active = sessions[i].active

C21_FastPathNeedsAuthCookie ==
    \A j \in JobIds :
        (~cfg.strict /\ ReturnedStored(j)) => HasValidAuthCookie(acq[j].result)

\* The step of job j out of the reconnect, out of the deactivation of the
\* stored session, and a run of the login procedure.
LeavesReconnect(j) == pc[j] = "ens_reconnect" /\ pc'[j] # "ens_reconnect"
LeavesDeactivation(j) == pc[j] = "ens_deact" /\ pc'[j] # "ens_deact"

\* The reconnect of job j succeeded: the row that was looked up holds the
\* exported bundle, which is returned; nothing else of the table changed and
\* the call ran no login.
ReconnectSucceeded(j) ==
    LET e == acq[j].existing IN
    /\ pc'[j] = acq[j].ret
    /\ acq'[j].result # NoState
    /\ acq'[j].result = sessions'[e].st
    /\ DOMAIN sessions' = DOMAIN sessions
    /\ sessions'[e].owner = sessions[e].owner
    /\ sessions'[e].active = sessions[e].active
    /\ \A i \in DOMAIN sessions \ {e} : sessions'[i] = sessions[i]
    /\ acq'[j].logins = 0
    /\ acq'[j].created = 0

\* C22: a stored session that failed validation and carries a reconnect
\* handle is, after a successful reconnect, updated in place and returned,
\* with no new row, no deactivation and no login; after a failed reconnect
\* the table is as before, the next step of the acquisition deactivates the
\* stored session, and the one after it is a run of the login procedure.
C22_ReconnectUpdatesOrFallsThrough ==
    [][\A j \in JobIds :
          /\ LeavesReconnect(j) =>
                 \/ ReconnectSucceeded(j)
                 \/ pc'[j] = "ens_deact" /\ sessions' = sessions /\ acq'[j] = acq[j]
          /\ LeavesDeactivation(j) =>
                 /\ pc'[j] = "login"
                 /\ ~sessions'[acq[j].existing].active
                 /\ acq'[j].logins = 0
          /\ (pc[j] = "login" /\ acq[j].existing # 0 /\ acq[j].logins = 0
                  /\ pc'[j] # "login") =>
                 acq'[j].logins = 1]_vars

\* One acquisition returned the bundle a reconnect exported, stored in the
\* row it had looked up; another one, whose reconnect failed (the row it
\* looked up still holds the bundle with the handle), deactivated that row
\* and ran the login procedure.
C22_Witness ==
    \E j, k \in JobIds :
        /\ pc[j] = "returned"
        /\ acq[j].result.by = "reconnect"
        /\ acq[j].result = sessions[acq[j].existing].st
        /\ acq[k].existing # 0
        /\ sessions[acq[k].existing].st.reconnect
        /\ ~sessions[acq[k].existing].active
        /\ acq[k].logins > 0

(***************************************************************************)
(* One acquisition per run (claim C23).                                    *)
(***************************************************************************)
\* Job j enters ensure_instagram_session with this step.
EntersAcquisition(j) == pc[j] # "ens_entry" /\ pc'[j] = "ens_entry"

\* C23: in one run of a job, in either flow, ensure_instagram_session is
\* entered at most once: the only step that enters it is the first step of
\* the flow (the runner's call of the scraper), never a later stage of the
\* pipeline, which works with the bundle that call returned.
C23_OneAcquisitionPerRun ==
    [][\A j \in JobIds : EntersAcquisition(j) => pc[j] = "body"]_vars

(***************************************************************************)
(* Timeouts in the retry loops (claim C24).                                *)
(***************************************************************************)
\* The message of an exception that reports a timeout.
IsTimeout(msg) == IsInfix(<<"timeout">>, msg)

\* The step of job j out of the except branch of the login loop.
LeavesLoginFailure(j) == pc[j] = "login_failed" /\ pc'[j] # "login_failed"

\* The step of the post extraction that settles an attempt: the attempt is in
\* the trail afterwards.
SettlesAttempt == sp.pc = "agent" /\ Len(sp'.trail) = Len(sp.trail) + 1

\* C24: a timeout is retryable in the retry loops: a login attempt, and an
\* attempt of the post extraction, that ended with a timeout below the attempt
\* limit is followed by another attempt.
C24_TimeoutIsRetried ==
    [][/\ \A j \in JobIds :
              (LeavesLoginFailure(j) /\ IsTimeout(acq[j].lastErr)
                   /\ acq[j].attempt < BrowserUseMaxRetries)
                  => (pc'[j] = "login" /\ acq'[j].attempt = acq[j].attempt + 1)
       /\ (SettlesAttempt /\ IsTimeout(sp'.trail[Len(sp'.trail)].raised)
               /\ sp.attempt < BrowserUseMaxRetries)
              => (sp'.pc = "agent" /\ sp'.attempt = sp.attempt + 1)]_vars

(***************************************************************************)
(* Persistence: uniqueness violations and the time of the writes           *)
(* (claims C25, C26).                                                      *)
(***************************************************************************)
\* The messages of the unique-constraint violations of the three tables.
UniqueViolations == {MsgDupProfile, MsgDupPost, MsgDupInteraction}

\* C25: a uniqueness violation met while a profile, a post or an interaction
\* is upserted is a no-op: the save function returns normally (it does not
\* raise the violation to the flow and the runner), so the other rows of the
\* batch are kept and the job is not failed by it.
C25_UniqueViolationIsNoOp ==
    \A j \in JobIds : exc[j] \notin UniqueViolations

\* Job j, in its first run, stands in scrape_profile after scrape_profile_info
\* returned: the extraction of its posts and of their interactions has not
\* begun.
PostsNotExtractedYet(j) == runs[j] = 1 /\ pc[j] = "sp_scrape"

\* C26: the results of a job are persisted once, after aggregation: while an
\* extraction stage of the job is still to come, the entity tables are as
\* they were before the job started (here: empty; no other job writes).
C26_NothingPersistedBeforeAggregation ==
    \A j \in JobIds :
        PostsNotExtractedYet(j)
            => (profiles = <<>> /\ posts = {} /\ interactions = {})

(***************************************************************************)
(* The fields of a job row (claim C27).                                    *)
(***************************************************************************)
\* C27: in every state of a job row, pending implies started_at is null,
\* completed or failed implies completed_at is set, and failed implies
\* error_message is set.
C27_JobRowFieldsFollowStatus ==
    \A j \in JobIds :
        /\ jobs[j].status = "pending" => jobs[j].started_at = NoTime
        /\ jobs[j].status \in Terminal => jobs[j].completed_at # NoTime
        /\ jobs[j].status = "failed" => jobs[j].error_message # NoText

\* A runner ended in its catch-all: the row is failed and carries the message
\* of the exception and a completion time.
C27_Witness ==
    \E j \in JobIds :
        /\ pc[j] = "done"
        /\ exc[j] # NoText
        /\ jobs[j].status = "failed"
        /\ jobs[j].error_message = exc[j]
        /\ jobs[j].completed_at # NoTime

(***************************************************************************)
(* The recent_likes flow: what it harvests and what a failed harvest does  *)
(* (claims C28, C29).                                                      *)
(***************************************************************************)
\* C28: the recent_likes flow hands no post, recent or not, to the harvesting
\* of comments (_scrape_post_interactions).
C28_RecentLikesHarvestsNoComments ==
    rl.pc # "idle" => rl.commented = <<>>

\* The results of scrape_post_like_users that report a failed harvest: the
\* list is not accessible, the answer cannot be parsed, the agent raised, the
\* retries are used up.
LikeFailures == {r \in LikeUsersResults : ~r.likes_accessible}

\* The payload of the post at position i once scrape_post_like_users has
\* returned for it: the one in hand, or the one emitted.
PayloadOf(i) ==
    IF rl.pc = "comments" /\ rl.i = i THEN rl.payload
    ELSE CHOOSE e \in Range(rl.extracted) : e.post_url = rl.posts[i].post_url

\* C29: a failed like harvest of one recent post is recorded in the error
\* field of that post, with likes_accessible false; the loop is left by an
\* exception only when a call of scrape_post_like_users returned nothing;
\* a loop that ended has handed every recent post to the harvest and emitted
\* every post that has a URL, and the flow builds its success result.
C29_FailedHarvestStaysInThePost ==
    rl.pc # "idle" =>
        /\ \A k \in DOMAIN rl.results :
               rl.results[k] \in LikeFailures =>
                   /\ PayloadOf(rl.harvested[k]).error # NoError
                   /\ ~PayloadOf(rl.harvested[k]).likes_accessible
        /\ rl.pc = "raised" => Len(rl.results) < Len(rl.harvested)
        /\ rl.pc = "done" =>
               /\ \A i \in RlWithUrl :
                      RlRecent(rl.posts[i].posted_at) => i \in Range(rl.harvested)
               /\ Len(rl.extracted) = Cardinality(RlWithUrl)

(***************************************************************************)
(* The window of _is_recent_post (claim C30).                              *)
(***************************************************************************)
Windows == 1..MaxWindow

\* C30: at one moment, a date that is recent at window W is recent at every
\* window W' > W: for every post of the feed, and in particular a post the
\* loop emitted as recent stays recent at every wider window and one it
\* emitted as not recent is not recent at any narrower window.
C30_RecentIsMonotonicInWindow ==
    rl.pc # "idle" =>
        /\ \A i \in DOMAIN rl.posts : \A w1, w2 \in Windows :
               (w1 < w2 /\ IsRecentPost(rl.posts[i].posted_at, w1, rl.now))
                   => IsRecentPost(rl.posts[i].posted_at, w2, rl.now)
        /\ \A k \in DOMAIN rl.extracted : \A w \in Windows :
               /\ (rl.extracted[k].is_recent /\ w > rl.recent_days)
                      => IsRecentPost(rl.extracted[k].posted_at, w, rl.now)
               /\ (~rl.extracted[k].is_recent /\ w < rl.recent_days)
                      => ~IsRecentPost(rl.extracted[k].posted_at, w, rl.now)

\* The loop, run with a window of two days, emitted as recent a post that
\* is not recent at one day and is recent at three.
C30_Witness ==
    /\ rl.pc # "idle"
    /\ rl.recent_days = 2
    /\ \E k \in DOMAIN rl.extracted :
           /\ rl.extracted[k].is_recent
           /\ ~IsRecentPost(rl.extracted[k].posted_at, 1, rl.now)
           /\ IsRecentPost(rl.extracted[k].posted_at, 3, rl.now)

(***************************************************************************)
(* Calls of the helpers that only compute.                                 *)
(***************************************************************************)
MaxCount == 44

CallOf(name, arg) == [pc |-> "called", name |-> name, arg |-> arg]

Returned(out) ==
    [pc |-> "returned", name |-> call.name, arg |-> call.arg, out |-> out]

CallFrame == UNCHANGED <<cfg, storeUp, jobVars, sessVars, imp, storeVars, sp, rl>>

\* The rows of the unit table from minutes to weeks.
TimeUnits == UNION {UnitPatterns[k][1] : k \in 2..5}

\* "N unit", "Nunit", "N unit ago", "ha N unit" and "N unit edited".
RelativeTexts ==
    UNION {{<<Nm(n), Wd(u)>>, <<Tok(n, u)>>, <<Nm(n), Wd(u), Wd("ago")>>,
            <<Wd("ha"), Nm(n), Wd(u)>>, <<Nm(n), Wd(u), Wd("edited")>>} :
           <<n, u>> \in (0..MaxCount) \X TimeUnits}

\* A text in a month or a year, a text with no number, and the fixed words.
OtherRelativeTexts ==
    {<<Nm(2), Wd("meses")>>, <<Nm(1), Wd("mes")>>, <<Nm(3), Wd("mo")>>,
     <<Nm(1), Wd("ano")>>, <<Tok(30, "s")>>, <<Wd("garbage")>>, <<>>,
     <<Wd("ago")>>, <<Wd("agora")>>, <<Wd("ontem")>>, <<Wd("hoje")>>}

\* One call of _relative_time_to_hours (398-443).
CallRelativeTimeToHours ==
    /\ call.pc = "called"
    /\ call.name = "_relative_time_to_hours"
    /\ call' = Returned(RelativeTimeToHours(call.arg))
    /\ CallFrame

\* Calendar dates without a year, 'month day' and 'day de month', in English
\* and Portuguese, and the relative durations that end in 'ago'.
MonthNames ==
    {<<"january", 1>>, <<"janeiro", 1>>, <<"feb", 2>>, <<"mar", 3>>,
     <<"november", 11>>, <<"novembro", 11>>, <<"dezembro", 12>>}

MonthDays == {1, 2, 3, 23, 28}

CalendarTexts ==
    UNION {{<<Wd(m[1]), Nm(d)>>, <<Nm(d), Wd("de"), Wd(m[1])>>} :
           <<m, d>> \in MonthNames \X MonthDays}

DurationTexts ==
    {<<Tok(2, "h"), Wd("ago")>>, <<Tok(4, "d"), Wd("ago")>>,
     <<Tok(3, "w"), Wd("ago")>>, <<Nm(4), Wd("days"), Wd("ago")>>,
     <<Nm(44), Wd("minutes"), Wd("ago")>>, <<Wd("ha"), Nm(2), Wd("dias")>>}

DateCall(text, now) == [text |-> text, now |-> now]

\* One call of _parse_absolute_date (445-569).
CallParseAbsoluteDate ==
    /\ call.pc = "called"
    /\ call.name = "_parse_absolute_date"
    /\ call' = Returned(ParseAbsoluteDate(call.arg.text, call.arg.now))
    /\ CallFrame

\* The markers of a rate-limit answer of the language model.
RateLimitMarkers == { <<"429">>, <<"rate_limit_exceeded">>, <<"rate", "limit">> }

ContainsRateLimit(text) == \E m \in RateLimitMarkers : IsInfix(m, text)

\* _classify_agent_failure_error(final_result, history): the final text of
\* the agent and the errors of its history, each None or a text.  A
\* rate-limit marker in either comes first, then a protocol error in the
\* final text; anything else is a parse failure.
ClassifyAgentFailureError(final_result, errors) ==
    IF \/ ContainsRateLimit(final_result)
       \/ \E k \in DOMAIN errors :
              errors[k] # None /\ ContainsRateLimit(errors[k][1])
    THEN "rate_limit_exceeded"
    ELSE IF ContainsProtocolError(final_result) THEN "protocol_error"
    ELSE "parse_failed"

FailureTexts ==
    { <<>>, <<"unexpected", "format">>,
      <<"error", "code", "429", "rate_limit_exceeded">>,
      <<"modelratelimiterror", "rate", "limit", "reached", "on", "tokens", "per", "min">>,
      <<"connection", "closed", "with", "protocol", "error">>,
      <<"protocol", "error", "after", "http", "429">>,
      <<"client", "is", "stopping">>, <<"sent", "1002">>,
      <<"reserved", "bits", "must", "be", "0">>, <<"connectionclosederror">>,
      MsgTimeout }

HistoryErrors ==
    { None, Some(<<"unexpected", "format">>),
      Some(<<"modelratelimiterror", "rate", "limit", "reached", "on", "tokens", "per", "min">>),
      Some(<<"connection", "closed", "with", "protocol", "error">>) }

Histories ==
    {<<>>} \cup {<<e>> : e \in HistoryErrors}
    \cup {<<e[1], e[2]>> : e \in HistoryErrors \X HistoryErrors}

FailureCall(final_result, errors) ==
    [final_result |-> final_result, errors |-> errors]

\* One call of _classify_agent_failure_error.
CallClassifyAgentFailureError ==
    /\ call.pc = "called"
    /\ call.name = "_classify_agent_failure_error"
    /\ call' = Returned(ClassifyAgentFailureError(call.arg.final_result,
                                                  call.arg.errors))
    /\ CallFrame

\* An exception met by AIExtractor: its status_code attribute (None when it
\* has none) and its message.
ApiError(status_code, message) == [status_code |-> status_code, message |-> message]

\* AIExtractor._is_rate_limit_error.
IsRateLimitError(error) ==
    \/ error.status_code = Some(429)
    \/ ContainsRateLimit(error.message)

\* An AIExtractor: its models (config.py 39-40) and their fallbacks, None
\* when not configured.
Extractor(model_text, model_vision, fallback_text, fallback_vision) ==
    [model_text |-> model_text, model_vision |-> model_vision,
     fallback_model_text |-> fallback_text,
     fallback_model_vision |-> fallback_vision]

\* The fallback configured for a primary model: the text one for the text
\* model, the vision one for the vision model.
ConfiguredFallback(self, primary) ==
    IF primary = self.model_text THEN self.fallback_model_text
    ELSE IF primary = self.model_vision THEN self.fallback_model_vision
    ELSE None

\* The configured fallback is handed out as it is, the primary model too.
ResolveFallbackUnchecked(self, primary) == ConfiguredFallback(self, primary)

\* AIExtractor._resolve_fallback_model.
ResolveFallbackModel(self, primary) ==
    IF ConfiguredFallback(self, primary) = Some(primary) THEN None
    ELSE ConfiguredFallback(self, primary)

Models == {"gpt-4o-mini", "gpt-4o", "gpt-4.1-mini"}

Fallbacks == {None} \cup {Some(m) : m \in Models}

ApiErrors ==
    {ApiError(c, m) :
        c \in {None, Some(429), Some(408), Some(500)},
        m \in { <<>>, <<"too", "many", "requests">>, <<"timeout">>, MsgTimeout,
                <<"rate_limit_exceeded", "tokens", "per", "min">>,
                <<"rate", "limit", "reached", "for", "gpt-4o-mini">> }}

FallbackCalls ==
    {c \in {[self |-> Extractor(t, v, ft, fv), primary |-> p] :
               t \in {"gpt-4o-mini"}, v \in {"gpt-4o-mini", "gpt-4o"},
               ft \in Fallbacks, fv \in Fallbacks, p \in Models} :
        c.primary \in {c.self.model_text, c.self.model_vision}}

\* One call of AIExtractor._is_rate_limit_error.
CallIsRateLimitError ==
    /\ call.pc = "called"
    /\ call.name = "_is_rate_limit_error"
    /\ call' = Returned(IsRateLimitError(call.arg))
    /\ CallFrame

\* One call of AIExtractor._resolve_fallback_model.
CallResolveFallbackModel ==
    /\ call.pc = "called"
    /\ call.name = "_resolve_fallback_model"
    /\ call' = Returned(ResolveFallbackModel(call.arg.self, call.arg.primary))
    /\ CallFrame

MaxRetriesAllowed == 5
MaxBackoff == 3

\* delay = settings.browser_use_retry_backoff * attempt (browser_use_agent.py
\* 759).
LoginDelay(backoff, attempt) == backoff * attempt

\* The waits of the login loop of ensure_instagram_session (751-767) when
\* every attempt raises a retryable error: one after each attempt but the
\* last, which leaves the loop by the break of line 757.
LoginWaits(max_retries, backoff) ==
    [attempt \in 1..(max_retries - 1) |-> LoginDelay(backoff, attempt)]

RetrySettings ==
    [browser_use_max_retries : 1..MaxRetriesAllowed,
     browser_use_retry_backoff : 1..MaxBackoff]

\* The login loop under one setting of the retries and the backoff.
CallLoginLoop ==
    /\ call.pc = "called"
    /\ call.name = "ensure_instagram_session"
    /\ call' = Returned(LoginWaits(call.arg.browser_use_max_retries,
                                   call.arg.browser_use_retry_backoff))
    /\ CallFrame

\* The attempt loops of scrape_profile_posts (932-1094) and
\* scrape_post_like_users (1126-1299) run at most MaxAttempts times here.
MaxAttempts == 3

\* An attempt is retried whenever its failure is retryable.
RetriedWhenever(retryable, attempt, max_retries) == retryable

\* "... and attempt < max_retries" of every retry branch (1015, 1028, 1043,
\* 1073; 1193, 1207, 1225, 1271), for the max_retries of the call.
RetriedWithin(retryable, attempt, max_retries) ==
    retryable /\ attempt < max_retries

\* What one attempt ends with: the exception it raised (NoText: none) or the
\* final result of agent.run().
AttemptOutcome(raised, final) == [raised |-> raised, final |-> final]

AttemptOutcomes ==
    {AttemptOutcome(m, NoFinal) : m \in {MsgWebsocket, MsgApiKey}}
    \cup {AttemptOutcome(NoText, f) : f \in
             {FinalResult(TRUE, <<>>, <<JsonObject(TRUE, <<>>, NoError)>>),
              FinalResult(TRUE, <<>>, <<JsonObject(TRUE, <<>>, "login_required")>>),
              FinalResult(FALSE, <<"protocol", "error">>, <<>>),
              FinalResult(TRUE, <<"sent", "1002">>, <<>>),
              FinalResult(TRUE, <<"no", "posts", "found">>, <<>>)}}

\* The conditions under which an attempt asks for another one: a retryable
\* exception (1062-1073, 1258-1271), an unsuccessful run with a protocol
\* error (1015, 1193), login_required in the parsed object (1028, 1225), no
\* parsed object and a protocol error (1043, 1207).
AttemptRetryable(o) ==
    IF o.raised # NoText THEN IsRetryable(o.raised)
    ELSE LET parsed == ExtractJsonObjectWithKey(o.final)
             protocol == ContainsProtocolError(o.final.text)
         IN  \/ ~o.final.successful /\ protocol
             \/ parsed # None /\ parsed[1].error = "login_required"
             \/ parsed = None /\ protocol

\* The "error" of the record an attempt returns (1039, 1053-1058, 1084;
\* 1217-1223, 1248-1254, 1282-1287).
AttemptError(o) ==
    IF o.raised # NoText THEN "exception"
    ELSE LET parsed == ExtractJsonObjectWithKey(o.final)
         IN  IF parsed # None THEN parsed[1].error ELSE "parse_failed"

\* What the loop returns: the error of the record, the number of agent runs
\* and whether the return statement was one of the loop body.
LoopResult(error, agent_runs, in_loop) ==
    [error |-> error, agent_runs |-> agent_runs, in_loop |-> in_loop]

\* for attempt in range(1, max_retries + 1) from `attempt` on, the attempts
\* ending as `outcomes` tells; the statement after the loop (1094, 1294-1299)
\* returns all_retries_failed.
RECURSIVE AttemptLoop(_, _, _)
AttemptLoop(max_retries, attempt, outcomes) ==
    IF attempt > max_retries
    THEN LoopResult("all_retries_failed", attempt - 1, FALSE)
    ELSE LET o == outcomes[attempt]
         IN  IF RetriedWithin(AttemptRetryable(o), attempt, max_retries)
             THEN AttemptLoop(max_retries, attempt + 1, outcomes)
             ELSE LoopResult(AttemptError(o), attempt, TRUE)

\* browser_use_max_retries and how each attempt it allows would end.
LoopCalls ==
    UNION {{[max_retries |-> n, outcomes |-> os] : os \in [1..n -> AttemptOutcomes]} :
           n \in 0..MaxAttempts}

CallScrapeProfilePosts ==
    /\ call.pc = "called"
    /\ call.name = "scrape_profile_posts"
    /\ call' = Returned(AttemptLoop(call.arg.max_retries, 1, call.arg.outcomes))
    /\ CallFrame

CallScrapePostLikeUsers ==
    /\ call.pc = "called"
    /\ call.name = "scrape_post_like_users"
    /\ call' = Returned(AttemptLoop(call.arg.max_retries, 1, call.arg.outcomes))
    /\ CallFrame

HelperCalls ==
    {CallOf("_relative_time_to_hours", t) : t \in RelativeTexts \cup OtherRelativeTexts}
    \cup {CallOf("_parse_absolute_date", DateCall(t, now)) :
             <<t, now>> \in (CalendarTexts \cup DurationTexts) \X Nows}
    \cup {CallOf("_classify_agent_failure_error", FailureCall(t, h)) :
             <<t, h>> \in FailureTexts \X Histories}
    \cup {CallOf("_is_rate_limit_error", e) : e \in ApiErrors}
    \cup {CallOf("_resolve_fallback_model", c) : c \in FallbackCalls}
    \cup {CallOf("ensure_instagram_session", c) : c \in RetrySettings}
    \cup {CallOf(f, c) : <<f, c>> \in
             {"scrape_profile_posts", "scrape_post_like_users"} \X LoopCalls}

InitHelpers ==
    /\ InitQuiet
    /\ sp = SpIdle
    /\ rl = RlIdle
    /\ call \in HelperCalls

NextHelpers ==
    \/ CallRelativeTimeToHours
    \/ CallParseAbsoluteDate
    \/ CallClassifyAgentFailureError
    \/ CallIsRateLimitError
    \/ CallResolveFallbackModel
    \/ CallLoginLoop
    \/ CallScrapeProfilePosts
    \/ CallScrapePostLikeUsers

SpecHelpers == InitHelpers /\ [][NextHelpers]_vars

(***************************************************************************)
(* The unit table of _relative_time_to_hours (claim C31).                  *)
(***************************************************************************)
\* The length in seconds of the unit a word names: a minute is 1/60 of an
\* hour, a day 24 hours, a week 168 hours.
SecondsOfUnit(u) ==
    CASE u \in {"m", "min", "mins", "minute", "minutes", "minuto", "minutos"} -> 60
      [] u \in {"h", "hr", "hrs", "hour", "hours", "hora", "horas"} -> 3600
      [] u \in {"d", "day", "days", "dia", "dias"} -> 24 * 3600
      [] u \in {"w", "wk", "wks", "week", "weeks", "sem", "semana", "semanas"} -> 168 * 3600

\* The count and the unit written in a text of RelativeTexts.
CountOf(text) == (CHOOSE t \in Range(text) : t.num >= 0).num
UnitOf(text) == (CHOOSE t \in Range(text) : t.word \in TimeUnits).word

\* C31: for every count N and every unit token from minutes to weeks, with
\* or without 'ago', 'ha' or 'edited', _relative_time_to_hours of the text
\* is N times the length of the unit written in it (and of no other unit).
C31_RelativeTimeIsCountTimesUnit ==
    (/\ call.pc = "returned"
     /\ call.name = "_relative_time_to_hours"
     /\ call.arg \in RelativeTexts)
        => call.out = Some(CountOf(call.arg) * SecondsOfUnit(UnitOf(call.arg)))

\* A text in weeks written in Portuguese, whose unit begins with the "s" of
\* the seconds, gave its weeks.
C31_Witness ==
    /\ call.pc = "returned"
    /\ call.name = "_relative_time_to_hours"
    /\ call.arg = <<Wd("ha"), Nm(2), Wd("semanas")>>
    /\ call.out = Some(2 * 168 * 3600)

(***************************************************************************)
(* Calendar dates without a year (claim C32).                              *)
(***************************************************************************)
\* The month and the day written in a text of CalendarTexts.
MonthWritten(text) ==
    (CHOOSE m \in MonthNames : \E t \in Range(text) : t = Wd(m[1]))[2]
DayWritten(text) == (CHOOSE t \in Range(text) : t.num >= 0).num

\* The day and month in the current year, or in the previous year when
\* that date would lie after today.
ResolvedDate(month, day, now) ==
    IF month > now.month \/ (month = now.month /\ day > now.day)
    THEN Instant(now.year - 1, month, day, 0)
    ELSE Instant(now.year, month, day, 0)

\* C32: _parse_absolute_date resolves a calendar date written without a
\* year ('January 23', '23 de janeiro') to that day and month in the
\* current year, or in the previous year when that date would lie after
\* today; the resolved date is never later than the current date; and a
\* relative duration ('2h ago', '4d ago') is never resolved as a calendar
\* date.
C32_DatesWithoutYear ==
    (call.pc = "returned" /\ call.name = "_parse_absolute_date") =>
        /\ call.arg.text \in CalendarTexts =>
               call.out = Some(ResolvedDate(MonthWritten(call.arg.text),
                                            DayWritten(call.arg.text),
                                            call.arg.now))
        /\ call.out # None => call.out[1] <= InstantOf(call.arg.now)
        /\ call.arg.text \in DurationTexts => call.out = None

(***************************************************************************)
(* The code of a failed agent run (claim C33).                             *)
(***************************************************************************)
\* A rate-limit marker in the final text or in a non-null error of the
\* history.
CarriesRateLimit(arg) ==
    \E m \in RateLimitMarkers :
        \/ IsInfix(m, arg.final_result)
        \/ \E k \in DOMAIN arg.errors :
               arg.errors[k] # None /\ IsInfix(m, arg.errors[k][1])

CarriesProtocolError(arg) ==
    \E m \in ProtocolMarkers : IsInfix(m, arg.final_result)

C35_LoginWaitsGrowExponentially ==
    (call.pc = "returned" /\ call.name = "ensure_instagram_session") =>
        LET waits == call.out
        IN  /\ Len(waits) >= 1 => waits[1] = call.arg.browser_use_retry_backoff
            /\ \A k \in 1..(Len(waits) - 1) : waits[k + 1] > waits[k]
            /\ \A k \in 1..(Len(waits) - 2) :
                   waits[k + 1] * waits[k + 1] = waits[k] * waits[k + 2]

(***************************************************************************)
(* The browser sessions of the login procedure (claim C36).                *)
(***************************************************************************)
\* C36: every browser session the login procedure opens is released by its
\* real stop or detach routine before the acquisition retries or returns,
\* also when the attempt failed: at most one browser session of a call is
\* attached at any time, none when the loop is about to decide on a retry
\* and none after the call.
C36_BrowserSessionsAreReleased ==
    \A j \in JobIds :
        /\ acq[j].attached <= 1
        /\ pc[j] = "login_failed" => acq[j].attached = 0
        /\ acq[j].done => acq[j].attached = 0

(***************************************************************************)
(* Posts without a URL (claim C37).                                        *)
(***************************************************************************)
\* C37: _save_posts_and_interactions is never asked to insert a post
\* without a URL: in both flows such a post is dropped before persistence,
\* so no job fails on the non-null constraint of the post URL.
C37_NoPostWithoutUrlIsPersisted ==
    \A j \in JobIds :
        /\ pc[j] \in {"svq_lookup", "svq_insert", "svq_commit"}
               => NoUrl \notin Range(sv[j].posts)
        /\ exc[j] # MsgNotNull
        /\ jobs[j].error_message # MsgNotNull

(***************************************************************************)
(* The profile row at the end of recent_likes (claim C38).                 *)
(***************************************************************************)
\* C38: the _save_profile call that ends the recent_likes flow, whose
\* payload carries only the username, leaves the attributes (full_name,
\* bio, counts, privacy and verification flags) of a Profile row that
\* exists already as they were stored; only last_scraped_at may change.
C38_RecentLikesKeepsProfileAttributes ==
    [][\A j \in JobIds :
          (/\ pc[j] = "svp_commit"
           /\ sv[j].ret = "rl_save"
           /\ sv[j].existing # 0
           /\ pc'[j] = "rl_save")
              => profiles'[sv[j].existing].info = profiles[sv[j].existing].info]_vars

(***************************************************************************)
(* Reuse of a stored session without credentials (claim C39).              *)
(***************************************************************************)
\* C39: ensure_instagram_session reuses an active stored session whether or
\* not INSTAGRAM_USERNAME / INSTAGRAM_PASSWORD are configured: with a
\* stored active session the call never ends empty-handed at its entry, and
\* without strict validation it returns the stored storage state.
C39_StoredSessionReusedWithoutCredentials ==
    [][\A j \in JobIds :
          (/\ pc[j] = "ens_entry"
           /\ pc'[j] # "ens_entry"
           /\ storeUp
           /\ GetLatestSession # 0)
              => /\ ~(acq'[j].done /\ acq'[j].result = NoState)
                 /\ ~cfg.strict =>
                        /\ acq'[j].done
                        /\ acq'[j].result = sessions[GetLatestSession].st]_vars

(***************************************************************************)
(* The attempt loops of the agent calls (claim C40).                       *)
(***************************************************************************)
LoopReturned ==
    /\ call.pc = "returned"
    /\ call.name \in {"scrape_profile_posts", "scrape_post_like_users"}

\* C40: with browser_use_max_retries >= 1, scrape_profile_posts and
\* scrape_post_like_users return from inside the attempt loop: the call
\* ends after at least one and at most max_retries agent runs and its error
\* is never all_retries_failed.
C40_AttemptLoopReturnsInside ==
    (LoopReturned /\ call.arg.max_retries >= 1)
        => /\ call.out.in_loop
           /\ call.out.error # "all_retries_failed"
           /\ call.out.agent_runs \in 1..call.arg.max_retries

\* A call of the like harvest allowed two attempts, both ending with a
\* retryable exception: the second attempt returned the error record.
C40_Witness ==
    /\ LoopReturned
    /\ call.name = "scrape_post_like_users"
    /\ call.arg.max_retries = 2
    /\ \A k \in 1..2 : AttemptRetryable(call.arg.outcomes[k])
    /\ call.out.agent_runs = 2
    /\ call.out.error = "exception"

=============================================================================
